---- MODULE Spec2Model ----
(***************************************************************************)
(* The question/answer protocol of octue/cloud/pub_sub/service.py: an      *)
(* asking Service (ask, wait_for_answer) and a serving Service (serve,     *)
(* receive_question_then_answer, answer) that talk through Google Pub/Sub  *)
(* topics and subscriptions.  Around it: the construction of a Service,    *)
(* serve up to its exit, Child.ask, the retry of transport calls, the JSON  *)
(* encoding of answers, failing transport calls, malformed questions and   *)
(* the polling Service of octue/resources/service.py, each with a          *)
(* specification of its own.                                               *)
(*                                                                         *)
(* Text is a sequence of tokens, so that concatenation and "contains" are  *)
(* computed.  JSON bytes are a wrapper around the encoded object.          *)
(***************************************************************************)
EXTENDS Integers, Sequences, FiniteSets, TLC

\* ---------------------------------------------------------------- bounds
NumQuestions == 1
MaxTimeout == 1
MaxTick == 2
MaxRedeliveries == 1
MaxServices == 2

Questions == 1..NumQuestions

\* The longest time a call of wait_for_answer can have measured when it
\* leaves its loop: the readings of the clock are not followed beyond it.
MaxElapsed == MaxTimeout + MaxTick

\* ------------------------------------------------------ program constants
OCTUE_NAMESPACE == "octue.services"
ANSWERS_NAMESPACE == "answers"

Children == {"child"}

\* The children of the child, in the order its run function asks them
ChildrenOfChild == <<"first_child_of_child", "second_child_of_child">>

Services == Children \cup {ChildrenOfChild[i] : i \in DOMAIN ChildrenOfChild}

\* The i-th question that a child's run function asks while it answers
\* question u, and the question that such a question was asked for
SubQuestion(u, i) == NumQuestions + (u - 1) * Len(ChildrenOfChild) + i

SubQuestions == {SubQuestion(u, i) : u \in Questions, i \in DOMAIN ChildrenOfChild}

AllQuestions == Questions \cup SubQuestions

IsSubQuestion(q) == q > NumQuestions

AskedFor(q) == ((q - NumQuestions - 1) \div Len(ChildrenOfChild)) + 1

None == "None"

VARIABLES
    topics,         \* names of the topics that exist in the project
    subscriptions,  \* names of the subscriptions that exist in the project
    queue,          \* subscription name -> messages retained on it
    serving,        \* child id -> whether its streaming subscription is open
    asker,          \* question -> the asker's ask / wait_for_answer call state
    task,           \* question uuid -> the child's callback for that question
    sent,           \* question uuid -> what the child published on the reply topic
    closed,         \* child id -> whether its subscriber client has been closed
    server,         \* child id -> the state of its call of serve
    services,       \* the outcomes of the constructions of Service, in order
    request         \* a transport call made with retry=create_custom_retry(timeout)

vars == <<topics, subscriptions, queue, serving, asker, task, sent, closed, server, services, request>>

\* ------------------------------------------------------------------ text
Str(token) == <<token>>

IsStr(value) == value.type = "str"

Contains(text, part) ==
    \E i \in 1..(Len(text) - Len(part) + 1) : SubSeq(text, i, i + Len(part) - 1) = part

\* json.dumps(...).encode() and json.loads(....decode())
JsonDumps(object) == [json |-> object]

JsonLoads(bytes) == bytes.json

\* Manifest.serialise(to_string=True) and Manifest.deserialise(..., from_string=True)
ManifestSerialise(manifest) ==
    CASE manifest = "cloud_manifest" -> "{id: cloud_manifest}"
      [] manifest = "local_manifest" -> "{id: local_manifest}"
      [] manifest = "output_manifest" -> "{id: output_manifest}"

ManifestDeserialise(string) ==
    CASE string = "{id: cloud_manifest}" -> "cloud_manifest"
      [] string = "{id: local_manifest}" -> "local_manifest"
      [] string = "{id: output_manifest}" -> "output_manifest"

\* ------------------------------------------------------------- transport
\* ".".join((service_id, ANSWERS_NAMESPACE, question_uuid)) under OCTUE_NAMESPACE
ServerName(service_id) == <<OCTUE_NAMESPACE, service_id>>

AnswerName(service_id, question_uuid) ==
    <<OCTUE_NAMESPACE, service_id, ANSWERS_NAMESPACE, question_uuid>>

Uuids == Questions

AllUuids == AllQuestions

Names == {ServerName(c) : c \in Children}
         \cup {AnswerName(c, u) : c \in Children, u \in Uuids}

AllNames == Names
            \cup {ServerName(c) : c \in Services}
            \cup {AnswerName(ChildrenOfChild[i], SubQuestion(u, i)) :
                     u \in Questions, i \in DOMAIN ChildrenOfChild}

\* Topic.exists()
TopicExists(name) == name \in topics

\* Topic.create(allow_existing) / Subscription.create(allow_existing): the
\* transport refuses to create a name that exists; allow_existing swallows that.
CreateFails(existing, name, allow_existing) == name \in existing /\ ~allow_existing

Created(existing, name) == existing \cup {name}

\* Topic.delete() / Subscription.delete()
Deleted(existing, name) == existing \ {name}

\* publisher.publish(topic=..., data=..., **attributes): the broker copies the
\* message to the subscription bound to the topic; a message published to a
\* topic that does not exist, or that has no subscription, is retained nowhere.
Published(name, message) ==
    IF name \in topics /\ name \in subscriptions
    THEN [queue EXCEPT ![name] = Append(@, message)]
    ELSE queue

\* ------------------------------------------------------------ exceptions
\* EXCEPTIONS_MAPPING: the names of the exception classes of builtins,
\* twined.exceptions and octue.exceptions
EXCEPTIONS_MAPPING ==
    {"Exception", "TypeError", "IndexError", "KeyError", "FileNotFoundError",
     "TimeoutError", "RuntimeError", "ValueError", "InvalidManifestContents",
     "FileLocationError", "ServiceNotFound"}

StrArg(token) == [type |-> "str", value |-> Str(token)]

IntArg(token) == [type |-> "int", value |-> Str(token)]

\* ---------------------------------------------------------- run function
\* The user's run function, as the tests supply it: what it does is decided
\* by the input values of the question.
InputValues == {"hello", "invalid_manifest", "file_not_found", "unknown"}

\* output_values_type is "json" for output values that JSON represents as
\* they are (strings, numbers, None, lists and dictionaries of these), and
\* the name of the class for any other object
NoAnalysis ==
    [kind |-> "none", output_values |-> None, output_values_type |-> "json",
     output_manifest |-> None, type |-> None, args |-> <<>>]

Returns(output_values, output_manifest) ==
    [NoAnalysis EXCEPT !.kind = "returned", !.output_values = output_values,
                       !.output_manifest = output_manifest]

Raises(type, args) == [NoAnalysis EXCEPT !.kind = "raised", !.type = type, !.args = args]

RunFunction(input_values) ==
    CASE input_values = "hello" -> Returns("Hello! It worked!", None)
      [] input_values = "invalid_manifest" ->
            Raises("InvalidManifestContents", <<StrArg("'met_mast_id' is a required property")>>)
      [] input_values = "file_not_found" ->
            Raises("FileNotFoundError", <<IntArg("2"), StrArg("No such file or directory: 'blah'")>>)
      [] input_values = "unknown" ->
            Raises("AnUnknownException", <<StrArg("This is an exception unknown to the asker.")>>)
      [] input_values \in {"monitoring", "invalid_monitoring"} -> Returns(None, None)
      [] input_values = "output_manifest" ->
            Returns("This is an analysis with an empty output manifest.", "output_manifest")
      [] input_values = "datetime" ->
            [Returns("datetime.datetime(2021, 1, 1, 0, 0)", None)
                EXCEPT !.output_values_type = "datetime"]
      [] input_values = "unserialisable" ->
            [Returns("<object object at 0x7f0c>", None)
                EXCEPT !.output_values_type = "object"]

\* The log records the run function emits while it runs
LogRecords(input_values) ==
    IF input_values = "hello"
    THEN <<"Starting analysis.", "Finished analysis.">>
    ELSE <<>>

\* The monitor messages the run function sends while it runs.  answer gives
\* the run function no handler for them: each is dropped with a warning.
MonitorMessages(input_values) ==
    CASE input_values = "monitoring" ->
            <<[status |-> "my first monitor message"],
              [status |-> "my second monitor message"]>>
      [] input_values = "invalid_monitoring" ->
            <<[status |-> "my first monitor message"],
              [wrong |-> "my second monitor message"],
              [status |-> "my third monitor message"]>>
      [] OTHER -> <<>>

\* "monitor_message_schema": {"properties": {"status": ...}, "required": ["status"]}
MeetsMonitorSchema(message) == "status" \in DOMAIN message

\* The question whose answer the child's run function builds from the
\* answers of its own children
Question == "What does the child of the child say?"

AsksChildren(service, input_values) == service \in Children /\ input_values = Question

\* The run function each service was constructed with: a child of the child
\* returns its analysis whatever the input values are
RunFunctionOf(service, input_values) ==
    CASE service = ChildrenOfChild[1] -> Returns("This is another successful analysis.", None)
      [] service = ChildrenOfChild[2] -> Returns("Hello! It worked!", None)
      [] OTHER -> RunFunction(input_values)

\* ------------------------------------------------------------------ state
\* input_manifest.all_datasets_are_in_cloud
AllDatasetsAreInCloud(manifest) == manifest = "cloud_manifest"

NoMessage == [data |-> JsonDumps(<<>>), attributes |-> <<>>]

NoResult ==
    [kind |-> "none", type |-> None, message |-> <<>>,
     output_values |-> None, output_manifest |-> None]

Raised(type, message) == [NoResult EXCEPT !.kind = "raised", !.type = type, !.message = message]

IdleCall ==
    [pc |-> "idle", service_id |-> None, input_values |-> None, input_manifest |-> None,
     keywords |-> {}, question_uuid |-> 0, push_endpoint |-> None,
     timeout |-> 0, elapsed |-> 0,
     answer |-> NoMessage, bound |-> FALSE, ask_result |-> NoResult, wait_result |-> NoResult]

\* No transport call is being retried
NoRequest == [pc |-> "idle", deadline |-> 0, elapsed |-> 0, errors |-> <<>>, result |-> NoResult]

\* A Service whose serve has not been called; the timeout of serve is the
\* set of the number given, the empty set when it is None; found is what
\* serve met in the project when it made its two create calls; callback is
\* what the last call of the subscribe callback raised before it entered answer
NoServe ==
    [pc |-> "idle", found |-> {}, timeout |-> {}, delete_topic_and_subscription_on_exit |-> FALSE,
     cancelled |-> FALSE, result |-> NoResult, callback |-> NoResult]

NoTask ==
    [pc |-> "none", service |-> None, deliveries |-> 0,
     data |-> [input_values |-> None, input_manifest |-> None], analysis |-> NoAnalysis]

AnswerNames == {AnswerName(c, u) : c \in Children, u \in Uuids}

\* A project may hold a topic or a subscription that an earlier process left
\* behind under a reply name; nothing serves and nothing is in flight.
Init ==
    /\ \E stale \in {{}} \cup {{n} : n \in AnswerNames} : topics = stale
    /\ \E stale \in {{}} \cup {{n} : n \in AnswerNames} : subscriptions = stale
    /\ queue = [n \in Names |-> <<>>]
    /\ serving = [c \in Children |-> FALSE]
    /\ asker = [q \in Questions |-> IdleCall]
    /\ task = [u \in Uuids |-> NoTask]
    /\ sent = [u \in Uuids |-> <<>>]
    /\ closed = [c \in Children |-> FALSE]
    /\ server = [c \in Children |-> NoServe]
    /\ services = <<>>
    /\ request = NoRequest

\* ------------------------------------------------------------------- ask
\* The parameters of ask(self, service_id, input_values, input_manifest=None):
\* a call that passes any other keyword is refused with a TypeError.
AskParameters == {"service_id", "input_values", "input_manifest"}

\* str(int(uuid.uuid4())): a fresh value for every call
NewQuestionUuid(q) == q

\* (the variant that tolerates a name that exists)
ResponseAllowExisting_Tolerant == TRUE

\* allow_existing as ask passes it to response_topic.create and
\* response_subscription.create
ResponseAllowExisting == FALSE

\* The calls of ask that the asker makes: the input values and input manifest
\* of the question, and the keywords passed beyond the positional arguments.
Call(input_values, input_manifest, keywords) ==
    [input_values |-> input_values, input_manifest |-> input_manifest, keywords |-> keywords]

Calls ==
    {Call(v, None, {}) : v \in InputValues}
    \cup {Call("hello", "cloud_manifest", {}),
          Call("hello", "local_manifest", {}),
          Call("hello", "local_manifest", {"allow_local_files"}),
          Call("hello", None, {"subscribe_to_logs"})}

\* The question topic is missing (a broken check that lets every service
\* id through is the variant below)
QuestionTopicMissing_Unchecked(service_id) == FALSE

\* question_topic = Topic(name=service_id, ...); not question_topic.exists()
QuestionTopicMissing(service_id) == ~TopicExists(ServerName(service_id))

AskFails(q, error) ==
    asker' = [asker EXCEPT ![q].pc = "done", ![q].ask_result = Raised(error, <<>>)]

\* (the variant that looks for the question topic before it looks at the
\* manifest)
Asking_ExistenceFirst(q, service_id, call) ==
    LET bound == [asker[q] EXCEPT !.service_id = service_id,
                                  !.input_values = call.input_values,
                                  !.input_manifest = call.input_manifest,
                                  !.keywords = call.keywords]
    IN  IF ~(call.keywords \subseteq AskParameters)
        THEN [bound EXCEPT !.pc = "done", !.ask_result = Raised("TypeError", <<>>)]
        ELSE IF QuestionTopicMissing(service_id)
        THEN [bound EXCEPT !.pc = "done",
                           !.ask_result = Raised("ServiceNotFound", <<>>)]
        ELSE IF call.input_manifest # None
                /\ ~AllDatasetsAreInCloud(call.input_manifest)
        THEN [bound EXCEPT !.pc = "done",
                           !.ask_result = Raised("FileLocationError", <<>>)]
        ELSE [bound EXCEPT !.pc = "create_topic",
                           !.question_uuid = NewQuestionUuid(q)]

\* ask, up to the choice of the question uuid: binding of the arguments, the
\* manifest check, the existence check of the question topic.
Asking(q, service_id, call) ==
    LET bound == [asker[q] EXCEPT !.service_id = service_id,
                                  !.input_values = call.input_values,
                                  !.input_manifest = call.input_manifest,
                                  !.keywords = call.keywords]
    IN  IF ~(call.keywords \subseteq AskParameters)
        THEN [bound EXCEPT !.pc = "done", !.ask_result = Raised("TypeError", <<>>)]
        ELSE IF call.input_manifest # None
                /\ ~AllDatasetsAreInCloud(call.input_manifest)
        THEN [bound EXCEPT !.pc = "done",
                           !.ask_result = Raised("FileLocationError", <<>>)]
        ELSE IF QuestionTopicMissing(service_id)
        THEN [bound EXCEPT !.pc = "done",
                           !.ask_result = Raised("ServiceNotFound", <<>>)]
        ELSE [bound EXCEPT !.pc = "create_topic",
                           !.question_uuid = NewQuestionUuid(q)]

\* A parent asks a child a question of its choice
Ask(q) ==
    /\ asker[q].pc = "idle"
    /\ \E service_id \in Children, call \in Calls :
          asker' = [asker EXCEPT ![q] = Asking(q, service_id, call)]
    /\ UNCHANGED <<topics, subscriptions, queue, serving, task, sent, closed, server, services, request>>

ResponseName(q) == AnswerName(asker[q].service_id, asker[q].question_uuid)

\* response_topic.create(allow_existing=False)
AskCreateTopic(q) ==
    /\ asker[q].pc = "create_topic"
    /\ IF CreateFails(topics, ResponseName(q), ResponseAllowExisting)
       THEN /\ AskFails(q, "AlreadyExists")
            /\ UNCHANGED topics
       ELSE /\ topics' = Created(topics, ResponseName(q))
            /\ asker' = [asker EXCEPT ![q].pc = "create_subscription"]
    /\ UNCHANGED <<subscriptions, queue, serving, task, sent, closed, server, services, request>>

\* (the variant that goes on to publish without the subscription)
AskCreateSubscription_Skipped(q) ==
    /\ asker[q].pc = "create_subscription"
    /\ asker' = [asker EXCEPT ![q].pc = "publish"]
    /\ UNCHANGED <<topics, subscriptions, queue, serving, task, sent, closed, server, services, request>>

\* response_subscription.create(allow_existing=False)
AskCreateSubscription(q) ==
    /\ asker[q].pc = "create_subscription"
    /\ IF CreateFails(subscriptions, ResponseName(q), ResponseAllowExisting)
       THEN /\ AskFails(q, "AlreadyExists")
            /\ UNCHANGED subscriptions
       ELSE /\ subscriptions' = Created(subscriptions, ResponseName(q))
            /\ asker' = [asker EXCEPT ![q].pc = "publish"]
    /\ UNCHANGED <<topics, queue, serving, task, sent, closed, server, services, request>>

\* (the variant that sends the question uuid in the payload as well)
QuestionMessage_UuidInPayload(q) ==
    [data |-> JsonDumps(
        [input_values |-> asker[q].input_values,
         input_manifest |-> IF asker[q].input_manifest # None
                            THEN ManifestSerialise(asker[q].input_manifest)
                            ELSE None,
         question_uuid |-> asker[q].question_uuid]),
     attributes |-> [question_uuid |-> asker[q].question_uuid]]

\* The question as ask encodes it: the payload holds the input values and the
\* serialised manifest, the question uuid is an attribute of the message.
QuestionMessage(q) ==
    [data |-> JsonDumps(
        [input_values |-> asker[q].input_values,
         input_manifest |-> IF asker[q].input_manifest # None
                            THEN ManifestSerialise(asker[q].input_manifest)
                            ELSE None]),
     attributes |-> [question_uuid |-> asker[q].question_uuid]]

\* publisher.publish(topic=question_topic.path, ...); future.result(); return
AskPublish(q) ==
    /\ asker[q].pc = "publish"
    /\ queue' = Published(ServerName(asker[q].service_id), QuestionMessage(q))
    /\ asker' = [asker EXCEPT ![q].pc = "asked",
                              ![q].ask_result = [NoResult EXCEPT !.kind = "returned"]]
    /\ UNCHANGED <<topics, subscriptions, serving, task, sent, closed, server, services, request>>

\* ------------------------------------------------------- wait_for_answer
\* (the variant of a loop that never gives up)
TimeIsUp_Never(elapsed, timeout) == FALSE

\* (time.perf_counter() - start_time) > timeout
TimeIsUp(elapsed, timeout) == elapsed > timeout

\* self.subscriber is the one client of the Service that makes the call: the
\* parent's for a question of a parent, the serving child's for a question
\* its run function asks.  Leaving `with self.subscriber:` closes the client,
\* and a closed client cannot be used any more.
Subscriber(q) == task[AskedFor(q)].service

SubscriberClosed(q) == IsSubQuestion(q) /\ closed[Subscriber(q)]

SubscriberAfterExit(q) ==
    IF IsSubQuestion(q) THEN [closed EXCEPT ![Subscriber(q)] = TRUE] ELSE closed

\* start_time = time.perf_counter(); no_message = True
Entering(q, timeout) ==
    [asker[q] EXCEPT !.pc = "pull", !.timeout = timeout, !.elapsed = 0]

\* A parent waits for the answer to a question it asked
WaitForAnswer(q) ==
    /\ asker[q].pc = "asked"
    /\ \E timeout \in 1..MaxTimeout :
          asker' = [asker EXCEPT ![q] = Entering(q, timeout)]
    /\ UNCHANGED <<topics, subscriptions, queue, serving, task, sent, closed, server, services, request>>

\* wait_for_answer on a subscription object that the caller built for the
\* reply name with a push endpoint: the call reads subscription.path only
WaitForAnswerOnPushSubscription(q) ==
    /\ asker[q].pc = "asked"
    /\ \E timeout \in 1..MaxTimeout :
          asker' = [asker EXCEPT ![q] =
                       [Entering(q, timeout) EXCEPT !.push_endpoint = "https://example.com/endpoint"]]
    /\ UNCHANGED <<topics, subscriptions, queue, serving, task, sent, closed, server, services, request>>

\* One turn of the while loop: a pull of at most one message.  A pull that
\* returns nothing has taken some time; when more than the timeout has passed
\* since entry the loop raises TimeoutError, which the finally block sees.
Pull(q) ==
    /\ asker[q].pc = "pull"
    /\ IF SubscriberClosed(q)
       THEN asker' = [asker EXCEPT
               ![q].pc = "finally",
               ![q].wait_result =
                   Raised("ValueError", Str("Cannot invoke RPC on closed channel!"))]
       ELSE IF queue[ResponseName(q)] # <<>>
       THEN asker' = [asker EXCEPT ![q].pc = "finally",
                                   ![q].answer = Head(queue[ResponseName(q)]),
                                   ![q].bound = TRUE]
       ELSE \E tick \in 1..MaxTick :
              LET elapsed == IF asker[q].elapsed + tick > MaxElapsed
                             THEN MaxElapsed ELSE asker[q].elapsed + tick
              IN  asker' = [asker EXCEPT
                      ![q].elapsed = elapsed,
                      ![q].pc = IF TimeIsUp(elapsed, asker[q].timeout)
                                THEN "finally" ELSE "pull",
                      ![q].wait_result = IF TimeIsUp(elapsed, asker[q].timeout)
                                         THEN Raised("TimeoutError", <<>>) ELSE @]
    /\ UNCHANGED <<topics, subscriptions, queue, serving, task, sent, closed, server, services, request>>

\* (the variant of a cleanup that leaves the subscription and what it holds)
Finally_SubscriptionLeft(q) ==
    /\ asker[q].pc = "finally"
    /\ asker' = [asker EXCEPT ![q].pc = "delete_topic"]
    /\ UNCHANGED <<topics, subscriptions, queue, serving, task, sent, closed, server, services, request>>

\* finally: acknowledge the answer if one was received (UnboundLocalError is
\* passed over if none was), then subscription.delete()
Finally(q) ==
    /\ asker[q].pc = "finally"
    /\ subscriptions' = Deleted(subscriptions, ResponseName(q))
    /\ queue' = [queue EXCEPT ![ResponseName(q)] = <<>>]
    /\ asker' = [asker EXCEPT ![q].pc = "delete_topic"]
    /\ UNCHANGED <<topics, serving, task, sent, closed, server, services, request>>

\* wait_for_answer is left, by return or by raise: its local variables
\* (start_time, attempt, answer) are gone, its result stays with the caller.
Exited(call, result) ==
    [call EXCEPT !.pc = "done", !.wait_result = result, !.timeout = 0, !.elapsed = 0,
                 !.answer = NoMessage, !.bound = FALSE]

\* (the variant of a cleanup that leaves the topic behind)
DeleteTopic_Skipped(q) ==
    /\ asker[q].pc = "delete_topic"
    /\ asker' = [asker EXCEPT ![q] =
                    IF asker[q].wait_result.kind = "raised"
                    THEN Exited(asker[q], asker[q].wait_result)
                    ELSE [asker[q] EXCEPT !.pc = "decode"]]
    /\ closed' = SubscriberAfterExit(q)
    /\ UNCHANGED <<topics, subscriptions, queue, serving, task, sent, server, services, request>>

\* finally, continued: subscription.topic.delete(), and the end of the with
\* block; a pending exception leaves the call here
DeleteTopic(q) ==
    /\ asker[q].pc = "delete_topic"
    /\ topics' = Deleted(topics, ResponseName(q))
    /\ asker' = [asker EXCEPT ![q] =
                    IF asker[q].wait_result.kind = "raised"
                    THEN Exited(asker[q], asker[q].wait_result)
                    ELSE [asker[q] EXCEPT !.pc = "decode"]]
    /\ closed' = SubscriberAfterExit(q)
    /\ UNCHANGED <<subscriptions, queue, serving, task, sent, server, services, request>>

\* EXCEPTIONS_MAPPING[data["exception_type"]](data["exception_message"]): the
\* lookup of a name that is no key of the mapping raises KeyError(name)
Reconstruct(data) ==
    IF data.exception_type \in EXCEPTIONS_MAPPING
    THEN Raised(data.exception_type, data.exception_message)
    ELSE Raised("KeyError", Str(data.exception_type))

\* (the variant that hands the output manifest on as the string it came as)
Decoded_ManifestLeftSerialised(data) ==
    IF "exception_type" \in DOMAIN data
    THEN Reconstruct(data)
    ELSE [NoResult EXCEPT
            !.kind = "returned",
            !.output_values = data.output_values,
            !.output_manifest = data.output_manifest]

\* What wait_for_answer does with the payload of the answer it pulled
Decoded(data) ==
    IF "exception_type" \in DOMAIN data
    THEN Reconstruct(data)
    ELSE [NoResult EXCEPT
            !.kind = "returned",
            !.output_values = data.output_values,
            !.output_manifest = IF data.output_manifest = None
                                THEN None
                                ELSE ManifestDeserialise(data.output_manifest)]

\* data = json.loads(answer.message.data.decode()) ... raise or return
Decode(q) ==
    /\ asker[q].pc = "decode"
    /\ asker' = [asker EXCEPT ![q] =
                    Exited(asker[q], Decoded(JsonLoads(asker[q].answer.data)))]
    /\ UNCHANGED <<topics, subscriptions, queue, serving, task, sent, closed, server, services, request>>

\* ----------------------------------------------------------------- serve
\* (the variant that refuses a server topic or subscription that exists)
ServeAllowExisting_Refused == FALSE

\* allow_existing as serve passes it to topic.create and subscription.create
ServeAllowExisting == TRUE

\* serve, up to `with self.subscriber:`: topic.create(allow_existing=True);
\* subscription.create(allow_existing=True); self.subscriber.subscribe(...,
\* callback=self.receive_question_then_answer).  A create that is refused
\* raises out of serve before anything is subscribed.
Serving(c, timeout, delete_topic_and_subscription_on_exit) ==
    LET topic_refused == CreateFails(topics, ServerName(c), ServeAllowExisting)
        refused == \/ topic_refused
                   \/ CreateFails(subscriptions, ServerName(c), ServeAllowExisting)
        call == [server[c] EXCEPT
                    !.found = {"topic" : x \in {ServerName(c)} \cap topics}
                              \cup {"subscription" : x \in {ServerName(c)} \cap subscriptions},
                    !.timeout = timeout,
                    !.delete_topic_and_subscription_on_exit =
                        delete_topic_and_subscription_on_exit]
    IN  /\ topics' = IF topic_refused THEN topics ELSE Created(topics, ServerName(c))
        /\ subscriptions' = IF refused THEN subscriptions
                            ELSE Created(subscriptions, ServerName(c))
        /\ serving' = [serving EXCEPT ![c] = ~refused]
        /\ server' = [server EXCEPT ![c] =
                         IF refused
                         THEN [call EXCEPT !.pc = "exited",
                                           !.result = Raised("AlreadyExists", <<>>)]
                         ELSE [call EXCEPT !.pc = "waiting"]]
        /\ UNCHANGED <<queue, asker, task, sent, closed, services, request>>

\* serve(), as a service that is left running calls it
Serve(c) ==
    /\ server[c].pc = "idle"
    /\ ~serving[c]
    /\ Serving(c, {}, FALSE)

\* (the variant of a callback that does not acknowledge the question)
ReceiveQuestionThenAnswer_Unacknowledged(c) ==
    /\ serving[c]
    /\ ~closed[c]
    /\ queue[ServerName(c)] # <<>>
    /\ LET question == Head(queue[ServerName(c)])
           data == JsonLoads(question.data)
           question_uuid == question.attributes.question_uuid
       IN  task' = [task EXCEPT ![question_uuid] =
                       [NoTask EXCEPT !.pc = "answering", !.service = c,
                                      !.deliveries = 1, !.data = data]]
    /\ UNCHANGED <<topics, subscriptions, queue, serving, asker, sent, closed, server, services, request>>

\* The end of `with self.subscriber:` when nothing is left to delete: the
\* subscriber client is closed and serve is left
ServeExited(call, result) == [call EXCEPT !.pc = "exited", !.result = result]

\* Bytes that json.loads accepts
IsJson(bytes) == "json" \in DOMAIN bytes

\* What the first two lines of the callback raise for a question:
\* json.loads(question.data.decode()) raises json.JSONDecodeError, and after
\* it question.attributes["question_uuid"] raises KeyError
QuestionError(question) ==
    IF ~IsJson(question.data)
    THEN Raised("JSONDecodeError", Str("Expecting value: line 1 column 1 (char 0)"))
    ELSE IF "question_uuid" \notin DOMAIN question.attributes
    THEN Raised("KeyError", Str("'question_uuid'"))
    ELSE NoResult

\* The callback raised: the streaming pull logs the exception and sends the
\* message back, to be delivered again.  Depending on the version of the
\* client library it goes on delivering, or it hands the exception to the
\* future that serve waits on: future.result raises it, which no except
\* clause of serve catches, and serve is left through the with block.
CallbackRaised(c, error) ==
    /\ queue' = [queue EXCEPT ![ServerName(c)] = Append(Tail(@), Head(@))]
    /\ \E stream_ends \in BOOLEAN :
          IF stream_ends
          THEN /\ serving' = [serving EXCEPT ![c] = FALSE]
               /\ closed' = [closed EXCEPT ![c] = TRUE]
               /\ server' = [server EXCEPT ![c] =
                                ServeExited([server[c] EXCEPT !.callback = error], error)]
          ELSE /\ server' = [server EXCEPT ![c].callback = error]
               /\ UNCHANGED <<serving, closed>>
    /\ UNCHANGED task

\* The callback: decode the payload, read the question_uuid attribute,
\* question.ack(), and enter answer(data, question_uuid).
ReceiveQuestionThenAnswer(c) ==
    /\ serving[c]
    /\ ~closed[c]
    /\ queue[ServerName(c)] # <<>>
    /\ LET question == Head(queue[ServerName(c)])
       IN  IF QuestionError(question).kind = "raised"
           THEN CallbackRaised(c, QuestionError(question))
           ELSE /\ queue' = [queue EXCEPT ![ServerName(c)] = Tail(@)]
                /\ task' = [task EXCEPT ![question.attributes.question_uuid] =
                               [NoTask EXCEPT !.pc = "answering", !.service = c,
                                              !.deliveries = 1,
                                              !.data = JsonLoads(question.data)]]
                /\ UNCHANGED <<serving, closed, server>>
    /\ UNCHANGED <<topics, subscriptions, asker, sent, services, request>>

\* Pub/Sub delivers a message at least once: the streaming pull may hand a
\* question that the callback has dealt with to the callback again, which
\* decodes it, acknowledges it and enters answer as it did the first time.
RECURSIVE RedeliveriesUpTo(_)
RedeliveriesUpTo(u) ==
    IF u = 0 THEN 0
    ELSE RedeliveriesUpTo(u - 1) + (IF task[u].deliveries > 1 THEN task[u].deliveries - 1 ELSE 0)

Redelivered(u) ==
    /\ task[u].pc \in {"returned", "escaped"}
    /\ RedeliveriesUpTo(NumQuestions) < MaxRedeliveries
    /\ serving[task[u].service]
    /\ ~closed[task[u].service]
    /\ task' = [task EXCEPT ![u].pc = "answering", ![u].analysis = NoAnalysis,
                            ![u].deliveries = @ + 1]
    /\ UNCHANGED <<topics, subscriptions, queue, serving, asker, sent, closed, server, services, request>>

\* answer: analysis = self.run_function(input_values=..., input_manifest=...),
\* for a run function that asks nobody
AnswerRun(u) ==
    /\ task[u].pc = "answering"
    /\ ~AsksChildren(task[u].service, task[u].data.input_values)
    /\ task' = [task EXCEPT
                  ![u].pc = "ran",
                  ![u].analysis = RunFunctionOf(task[u].service, task[u].data.input_values)]
    /\ UNCHANGED <<topics, subscriptions, queue, serving, asker, sent, closed, server, services, request>>

\* str(obj) of a datetime.datetime
DatetimeStr(obj) ==
    CASE obj = "datetime.datetime(2021, 1, 1, 0, 0)" -> "2021-01-01 00:00:00"

\* json.dumps(..., cls=OctueJSONEncoder) of the output values: the encoder's
\* default turns a datetime into str(obj)
OctueJSONEncoded(analysis) ==
    IF analysis.output_values_type = "datetime"
    THEN DatetimeStr(analysis.output_values)
    ELSE analysis.output_values

\* (the variant of an encoder that lets every object through)
Tried_Unencoded(analysis) == analysis

\* The try block of answer, after the run function: json.dumps of an object
\* that is neither JSON's own nor a datetime ends in the base encoder's
\* default, which raises TypeError; the try block then ends as it does when
\* the run function raised, with that TypeError as the exception.
Tried(analysis) ==
    IF analysis.kind = "returned" /\ analysis.output_values_type \notin {"json", "datetime"}
    THEN Raises("TypeError",
                <<StrArg("Object of type " \o analysis.output_values_type
                             \o " is not JSON serializable")>>)
    ELSE analysis

\* {"output_values": ..., "output_manifest": ...}
ResultEnvelope(analysis) ==
    [data |-> JsonDumps(
        [output_values |-> OctueJSONEncoded(analysis),
         output_manifest |-> IF analysis.output_manifest = None
                             THEN None
                             ELSE ManifestSerialise(analysis.output_manifest)]),
     attributes |-> <<>>]

\* exception_message = f"Error in {self!r}: " + exception.args[0]: this
\* raises IndexError when args is empty, TypeError when args[0] is no string
MessageFails(analysis) == analysis.args = <<>> \/ ~IsStr(analysis.args[1])

ExceptionMessage(analysis) == Str("Error in <Service>: ") \o analysis.args[1].value

\* {"exception_type": ..., "exception_message": ..., "traceback": ...}
ErrorEnvelope(analysis) ==
    [data |-> JsonDumps(
        [exception_type |-> analysis.type,
         exception_message |-> ExceptionMessage(analysis),
         traceback |-> <<"frame of run_function">>]),
     attributes |-> <<>>]

\* answer, after the run function: publish the result, or in the handler of
\* BaseException build the error envelope and publish it; an exception
\* raised inside that handler leaves answer and the callback.
AnswerPublish(u) ==
    /\ task[u].pc = "ran"
    /\ LET analysis == Tried(task[u].analysis)
           topic == AnswerName(task[u].service, u)
       IN  IF analysis.kind = "raised" /\ MessageFails(analysis)
           THEN /\ task' = [task EXCEPT ![u].pc = "escaped"]
                /\ UNCHANGED <<queue, sent>>
           ELSE LET envelope == IF analysis.kind = "raised"
                                THEN ErrorEnvelope(analysis)
                                ELSE ResultEnvelope(analysis)
                IN  /\ queue' = Published(topic, envelope)
                    /\ sent' = [sent EXCEPT ![u] = Append(@, envelope)]
                    /\ task' = [task EXCEPT ![u].pc = "returned"]
    /\ UNCHANGED <<topics, subscriptions, serving, asker, closed, server, services, request>>

\* ------------------------------------- a child that asks its own children
\* The run function of the child asks each of its children in turn, then
\* waits for each answer in turn, and returns the answers as its output
\* values; an exception of ask or wait_for_answer leaves the run function.
CallRaised(call) ==
    call.pc = "done" /\ (call.ask_result.kind = "raised" \/ call.wait_result.kind = "raised")

CallReturned(call) == call.pc = "done" /\ call.wait_result.kind = "returned"

RaisedBy(call) == IF call.ask_result.kind = "raised" THEN call.ask_result ELSE call.wait_result

\* The one argument an exception of the library or of the service carries
MessageArg(result) ==
    [type |-> "str", value |-> Str(result.type) \o result.message]

\* What wait_for_answer returned, as the run function stores it
Answered(result) ==
    [output_values |-> result.output_values, output_manifest |-> result.output_manifest]

ChildRunFunction(u) ==
    LET calls == [i \in DOMAIN ChildrenOfChild |-> asker[SubQuestion(u, i)]]
    IN  IF \E i \in DOMAIN calls : CallRaised(calls[i])
        THEN LET i == CHOOSE i \in DOMAIN calls : CallRaised(calls[i])
             IN  Raises(RaisedBy(calls[i]).type, <<MessageArg(RaisedBy(calls[i]))>>)
        ELSE Returns([i \in DOMAIN calls |-> Answered(calls[i].wait_result)], None)

\* A parent asks the child the question that makes it ask its children
ParentAsks(q) ==
    /\ asker[q].pc = "idle"
    /\ \E service_id \in Children :
          asker' = [asker EXCEPT ![q] = Asking(q, service_id, Call(Question, None, {}))]
    /\ UNCHANGED <<topics, subscriptions, queue, serving, task, sent, closed, server, services, request>>

\* subscription_i, _ = child.ask(service_id=..., input_values=input_values)
RunFunctionAsks(u, i) ==
    /\ task[u].pc = "answering"
    /\ AsksChildren(task[u].service, task[u].data.input_values)
    /\ asker[SubQuestion(u, i)].pc = "idle"
    /\ \A j \in 1..(i - 1) : asker[SubQuestion(u, j)].pc = "asked"
    /\ asker' = [asker EXCEPT ![SubQuestion(u, i)] =
                    Asking(SubQuestion(u, i), ChildrenOfChild[i],
                           Call(task[u].data.input_values, None, {}))]
    /\ UNCHANGED <<topics, subscriptions, queue, serving, task, sent, closed, server, services, request>>

\* child.wait_for_answer(subscription_i): on a client that is closed either
\* the with statement refuses to enter, or it enters and the pull fails
RunFunctionWaits(u, i) ==
    /\ task[u].pc = "answering"
    /\ AsksChildren(task[u].service, task[u].data.input_values)
    /\ \A j \in DOMAIN ChildrenOfChild :
          IF j < i THEN CallReturned(asker[SubQuestion(u, j)])
                   ELSE asker[SubQuestion(u, j)].pc = "asked"
    /\ \/ \E timeout \in 1..MaxTimeout :
             asker' = [asker EXCEPT ![SubQuestion(u, i)] = Entering(SubQuestion(u, i), timeout)]
       \/ /\ SubscriberClosed(SubQuestion(u, i))
          /\ asker' = [asker EXCEPT
                 ![SubQuestion(u, i)].pc = "done",
                 ![SubQuestion(u, i)].wait_result =
                     Raised("RuntimeError",
                            Str("Closed subscriber cannot be used as context manager."))]
    /\ UNCHANGED <<topics, subscriptions, queue, serving, task, sent, closed, server, services, request>>

\* return MockAnalysis(output_values={...}), or the exception on its way out
RunFunctionReturns(u) ==
    /\ task[u].pc = "answering"
    /\ AsksChildren(task[u].service, task[u].data.input_values)
    /\ \/ \E i \in DOMAIN ChildrenOfChild : CallRaised(asker[SubQuestion(u, i)])
       \/ \A i \in DOMAIN ChildrenOfChild : CallReturned(asker[SubQuestion(u, i)])
    /\ task' = [task EXCEPT ![u].pc = "ran", ![u].analysis = ChildRunFunction(u)]
    /\ UNCHANGED <<topics, subscriptions, queue, serving, asker, sent, closed, server, services, request>>

\* ------------------------------------------------------------------ next
Next ==
    \/ \E q \in Questions : Ask(q)
    \/ \E q \in Questions : AskCreateTopic(q)
    \/ \E q \in Questions : AskCreateSubscription(q)
    \/ \E q \in Questions : AskPublish(q)
    \/ \E q \in Questions : WaitForAnswer(q)
    \/ \E q \in Questions : Pull(q)
    \/ \E q \in Questions : Finally(q)
    \/ \E q \in Questions : DeleteTopic(q)
    \/ \E q \in Questions : Decode(q)
    \/ \E c \in Children : Serve(c)
    \/ \E c \in Children : ReceiveQuestionThenAnswer(c)
    \/ \E u \in Uuids : AnswerRun(u)
    \/ \E u \in Uuids : AnswerPublish(u)

Spec == Init /\ [][Next]_vars

\* The thread that called wait_for_answer keeps running its loop and its
\* cleanup; nothing is assumed of the child.
FairSpec ==
    /\ Spec
    /\ \A q \in Questions : WF_vars(Pull(q))

\* A project that holds nothing when the services start
EmptyProject == Init /\ topics = {} /\ subscriptions = {}

\* Questions that are delivered more than once.
RedeliveryNext ==
    \/ Next
    \/ \E u \in Uuids : Redelivered(u)

RedeliverySpec == EmptyProject /\ [][RedeliveryNext]_vars

\* A parent asks a child whose run function sends monitor messages
AsksForMonitoring(q) ==
    /\ asker[q].pc = "idle"
    /\ \E service_id \in Children, input_values \in {"monitoring", "invalid_monitoring"} :
          asker' = [asker EXCEPT ![q] = Asking(q, service_id, Call(input_values, None, {}))]
    /\ UNCHANGED <<topics, subscriptions, queue, serving, task, sent, closed, server, services, request>>

\* Children whose run functions send monitor messages.
MonitoringNext ==
    \/ Next
    \/ \E q \in Questions : AsksForMonitoring(q)

MonitoringSpec == EmptyProject /\ [][MonitoringNext]_vars

\* Callers that may hand wait_for_answer a push subscription.
PushNext ==
    \/ Next
    \/ \E q \in Questions : WaitForAnswerOnPushSubscription(q)

PushSpec == EmptyProject /\ [][PushNext]_vars

\* A parent asks a child whose run function returns an output manifest, or
\* output values that hold a datetime
AsksForOutput(q) ==
    /\ asker[q].pc = "idle"
    /\ \E service_id \in Children, input_values \in {"output_manifest", "datetime", "unserialisable"} :
          asker' = [asker EXCEPT ![q] = Asking(q, service_id, Call(input_values, None, {}))]
    /\ UNCHANGED <<topics, subscriptions, queue, serving, task, sent, closed, server, services, request>>

\* Children whose answers hold more than a string.
OutputNext ==
    \/ Next
    \/ \E q \in Questions : AsksForOutput(q)

OutputSpec == EmptyProject /\ [][OutputNext]_vars

\* ------------------------------------------------- serve, to its exit
\* serve(timeout=..., delete_topic_and_subscription_on_exit=...)
ServeWithArguments(c) ==
    /\ server[c].pc = "idle"
    /\ ~serving[c]
    /\ \E timeout \in {{}} \cup {{t} : t \in 1..MaxTimeout}, delete_on_exit \in BOOLEAN :
          Serving(c, timeout, delete_on_exit)

\* except (TimeoutError, KeyboardInterrupt): future.cancel(), and after it
\* the cleanup if it was asked for
Cancelled(c) ==
    /\ serving' = [serving EXCEPT ![c] = FALSE]
    /\ IF server[c].delete_topic_and_subscription_on_exit
       THEN /\ server' = [server EXCEPT ![c].cancelled = TRUE, ![c].pc = "delete_topic"]
            /\ UNCHANGED closed
       ELSE /\ server' = [server EXCEPT ![c] =
                             ServeExited([server[c] EXCEPT !.cancelled = TRUE],
                                         [NoResult EXCEPT !.kind = "returned"])]
            /\ closed' = [closed EXCEPT ![c] = TRUE]
    /\ UNCHANGED <<topics, subscriptions, queue, asker, task, sent, services, request>>

\* future.result(timeout=timeout) raises TimeoutError when the timeout, if
\* one was given, has passed
ServeTimesOut(c) ==
    /\ server[c].pc = "waiting"
    /\ server[c].timeout # {}
    /\ Cancelled(c)

\* KeyboardInterrupt reaches the thread that waits in future.result
ServeInterrupted(c) ==
    /\ server[c].pc = "waiting"
    /\ Cancelled(c)

\* The stream fails with an error that is not retried: the streaming pull
\* shuts down and future.result raises the error, which no except clause of
\* serve catches; it leaves the with block and serve.
ServeStreamFails(c) ==
    /\ server[c].pc = "waiting"
    /\ serving' = [serving EXCEPT ![c] = FALSE]
    /\ closed' = [closed EXCEPT ![c] = TRUE]
    /\ server' = [server EXCEPT ![c] =
                     ServeExited(server[c], Raised("PermissionDenied", <<>>))]
    /\ UNCHANGED <<topics, subscriptions, queue, asker, task, sent, services, request>>

\* if delete_topic_and_subscription_on_exit: topic.delete()
ServeDeleteTopic(c) ==
    /\ server[c].pc = "delete_topic"
    /\ topics' = Deleted(topics, ServerName(c))
    /\ server' = [server EXCEPT ![c].pc = "delete_subscription"]
    /\ UNCHANGED <<subscriptions, queue, serving, asker, task, sent, closed, services, request>>

\* subscription.delete(), and the end of the with block
ServeDeleteSubscription(c) ==
    /\ server[c].pc = "delete_subscription"
    /\ subscriptions' = Deleted(subscriptions, ServerName(c))
    /\ queue' = [queue EXCEPT ![ServerName(c)] = <<>>]
    /\ closed' = [closed EXCEPT ![c] = TRUE]
    /\ server' = [server EXCEPT ![c] =
                     ServeExited(server[c], [NoResult EXCEPT !.kind = "returned"])]
    /\ UNCHANGED <<topics, serving, asker, task, sent, services, request>>

\* The service is started again under the same id: a new Service object,
\* with a subscriber client of its own
Restarted(c) ==
    /\ server[c].pc = "exited"
    /\ server' = [server EXCEPT ![c] = NoServe]
    /\ closed' = [closed EXCEPT ![c] = FALSE]
    /\ UNCHANGED <<topics, subscriptions, queue, serving, asker, task, sent, services, request>>

\* A project in which an earlier process may have left the server topic
\* of a child behind
ServeInit ==
    /\ \E stale \in {{}} \cup {{ServerName(c)} : c \in Children} : topics = stale
    /\ subscriptions = {}
    /\ queue = [n \in Names |-> <<>>]
    /\ serving = [c \in Children |-> FALSE]
    /\ asker = [q \in Questions |-> IdleCall]
    /\ task = [u \in Uuids |-> NoTask]
    /\ sent = [u \in Uuids |-> <<>>]
    /\ closed = [c \in Children |-> FALSE]
    /\ server = [c \in Children |-> NoServe]
    /\ services = <<>>
    /\ request = NoRequest

\* A parent asks a child a question without a manifest
AsksPlainly(q) ==
    /\ asker[q].pc = "idle"
    /\ \E service_id \in Children, input_values \in InputValues :
          asker' = [asker EXCEPT ![q] = Asking(q, service_id, Call(input_values, None, {}))]
    /\ UNCHANGED <<topics, subscriptions, queue, serving, task, sent, closed, server, services, request>>

\* Services that serve until they are stopped, and parents that ask them;
\* what the parents do with the answers is left out.
ServeNext ==
    \/ \E q \in Questions : AsksPlainly(q)
    \/ \E q \in Questions : AskCreateTopic(q)
    \/ \E q \in Questions : AskCreateSubscription(q)
    \/ \E q \in Questions : AskPublish(q)
    \/ \E c \in Children : Serve(c)
    \/ \E c \in Children : ServeWithArguments(c)
    \/ \E c \in Children : ServeTimesOut(c)
    \/ \E c \in Children : ServeInterrupted(c)
    \/ \E c \in Children : ServeStreamFails(c)
    \/ \E c \in Children : ServeDeleteTopic(c)
    \/ \E c \in Children : ServeDeleteSubscription(c)
    \/ \E c \in Children : Restarted(c)
    \/ \E c \in Children : ReceiveQuestionThenAnswer(c)
    \/ \E u \in Uuids : AnswerRun(u)
    \/ \E u \in Uuids : AnswerPublish(u)

ServeSpec == ServeInit /\ [][ServeNext]_vars

\* Services that serve until they are stopped and that may be handed a
\* question more than once.
ServerNext ==
    \/ ServeNext
    \/ \E u \in Uuids : Redelivered(u)

ServerSpec == ServeInit /\ [][ServerNext]_vars

\* ------------------------------------------------- create_custom_retry
\* The errors a transport call can raise: the class of google.api_core.exceptions
\* and the status it stands for
TransportError(class, status) == [class |-> class, status |-> status]

TransportErrors ==
    {TransportError("NotFound", "not-found"),
     TransportError("Aborted", "aborted"),
     TransportError("DeadlineExceeded", "deadline-exceeded"),
     TransportError("InternalServerError", "internal"),
     TransportError("ResourceExhausted", "resource-exhausted"),
     TransportError("ServiceUnavailable", "unavailable"),
     TransportError("Unknown", "unknown"),
     TransportError("Cancelled", "cancelled"),
     TransportError("PermissionDenied", "permission-denied"),
     TransportError("InvalidArgument", "invalid-argument"),
     TransportError("AlreadyExists", "already-exists"),
     TransportError("FailedPrecondition", "failed-precondition"),
     TransportError("Unauthenticated", "unauthenticated"),
     TransportError("DataLoss", "data-loss")}

\* (the variant of a predicate from which Cancelled is missing)
RetryPredicate_WithoutCancelled(error) ==
    error.class \in {"NotFound", "Aborted", "DeadlineExceeded", "InternalServerError",
                     "ResourceExhausted", "ServiceUnavailable", "Unknown"}

\* predicate=google.api_core.retry.if_exception_type(NotFound, Aborted, ...)
RetryPredicate(error) ==
    error.class \in {"NotFound", "Aborted", "DeadlineExceeded", "InternalServerError",
                     "ResourceExhausted", "ServiceUnavailable", "Unknown", "Cancelled"}

\* A call is made with retry=create_custom_retry(timeout): deadline=timeout
RequestStarts ==
    /\ request.pc = "idle"
    /\ \E timeout \in 1..MaxTimeout :
          request' = [request EXCEPT !.pc = "calling", !.deadline = timeout]
    /\ UNCHANGED <<topics, subscriptions, queue, serving, asker, task, sent, closed, server, services>>

\* An attempt raises: an error the predicate accepts is followed by a sleep
\* and another attempt unless the deadline has passed by then, and any other
\* error is raised to the caller at once
AttemptFails ==
    /\ request.pc = "calling"
    /\ \E error \in TransportErrors, tick \in 1..MaxTick :
          LET elapsed == IF request.elapsed + tick > MaxElapsed
                         THEN MaxElapsed ELSE request.elapsed + tick
              failed == [request EXCEPT !.errors = Append(@, error)]
          IN  request' =
                  IF ~RetryPredicate(error)
                  THEN [failed EXCEPT !.pc = "done",
                                      !.result = Raised(error.class, <<>>)]
                  ELSE IF elapsed > request.deadline
                  THEN [failed EXCEPT !.pc = "done", !.elapsed = elapsed,
                                      !.result = Raised("RetryError", <<>>)]
                  ELSE [failed EXCEPT !.elapsed = elapsed]
    /\ UNCHANGED <<topics, subscriptions, queue, serving, asker, task, sent, closed, server, services>>

\* An attempt returns
AttemptSucceeds ==
    /\ request.pc = "calling"
    /\ request' = [request EXCEPT !.pc = "done",
                                  !.result = [NoResult EXCEPT !.kind = "returned"]]
    /\ UNCHANGED <<topics, subscriptions, queue, serving, asker, task, sent, closed, server, services>>

RetryNext ==
    \/ RequestStarts
    \/ AttemptFails
    \/ AttemptSucceeds

RetrySpec == EmptyProject /\ [][RetryNext]_vars

\* ------------------------------------------------------- Service(...)
\* A Python value that may be passed as service_id: its type, and its
\* contents as text (the characters of a string in tokens, the items of a
\* list or of a dictionary, the digits of a number)
Value(type, value) == [type |-> type, value |-> value]

NoneValue == Value("NoneType", <<>>)

ServiceIdArguments ==
    {NoneValue,
     Value("str", <<>>),
     Value("list", <<>>),
     Value("dict", <<>>),
     Value("int", <<"0">>),
     Value("str", <<"hello">>),
     Value("str", <<OCTUE_NAMESPACE, ".", "hello">>),
     Value("str", <<"my-service">>),
     Value("int", <<"42">>),
     Value("list", <<"hello">>)}

\* bool(value), as `not service_id` takes it
Truthy(value) ==
    CASE value.type = "NoneType" -> FALSE
      [] value.type = "int" -> value.value # <<"0">>
      [] OTHER -> value.value # <<>>

\* str(uuid.uuid4()): the n-th value drawn differs from every other one
Uuid4(n) == Value("str", <<"uuid4", ToString(n)>>)

NoService == [service_id |-> NoneValue, kind |-> "none", type |-> None, id |-> NoneValue]

\* Service.__init__(backend, service_id=service_id), when drawn uuids have
\* been drawn before it
ServiceInit(service_id, drawn) ==
    IF service_id = NoneValue
    THEN [NoService EXCEPT !.kind = "created", !.id = Uuid4(drawn + 1)]
    ELSE IF ~Truthy(service_id)
    THEN [NoService EXCEPT !.service_id = service_id, !.kind = "raised",
                           !.type = "ValueError"]
    ELSE [NoService EXCEPT !.service_id = service_id, !.kind = "created",
                           !.id = service_id]

\* The number of constructions so far that drew a uuid
Drawn == Cardinality({i \in DOMAIN services : services[i].service_id = NoneValue})

Construct ==
    /\ Len(services) < MaxServices
    /\ \E service_id \in ServiceIdArguments :
          services' = Append(services, ServiceInit(service_id, Drawn))
    /\ UNCHANGED <<topics, subscriptions, queue, serving, asker, task, sent, closed, server, request>>

ConstructNext == Construct

ConstructSpec == EmptyProject /\ [][ConstructNext]_vars

\* ------------------------------------------------------------ Child.ask
\* The parameters of ask that take positional arguments, after self
AskPositionalParameters == <<"service_id", "input_values", "input_manifest">>

\* service.ask(*arguments): more positional arguments than ask has
\* parameters are refused with a TypeError before the body of ask runs
AskingPositionally(q, arguments) ==
    IF Len(arguments) > Len(AskPositionalParameters)
    THEN [asker[q] EXCEPT !.service_id = arguments[1],
                          !.input_values = arguments[2],
                          !.input_manifest = arguments[3],
                          !.pc = "done",
                          !.ask_result = Raised("TypeError", <<>>)]
    ELSE Asking(q, arguments[1], Call(arguments[2], arguments[3], {}))

\* Child.ask(input_values, input_manifest, subscribe_to_logs, timeout):
\* service = self._create_service();
\* subscription, _ = service.ask(self.id, input_values, input_manifest, subscribe_to_logs).
\* The exception of service.ask leaves Child.ask: the call of wait_for_answer
\* with the timeout is not reached.
ChildAsks(q) ==
    /\ asker[q].pc = "idle"
    /\ Len(services) < MaxServices
    /\ services' = Append(services, ServiceInit(NoneValue, Drawn))
    /\ \E id \in Children, input_values \in InputValues,
          input_manifest \in {None, "cloud_manifest", "local_manifest"},
          subscribe_to_logs \in {"True", "False"} :
          asker' = [asker EXCEPT ![q] =
                       AskingPositionally(
                           q, <<id, input_values, input_manifest, subscribe_to_logs>>)]
    /\ UNCHANGED <<topics, subscriptions, queue, serving, task, sent, closed, server, request>>

\* Parents that ask through Child as well as through their own Service
ChildNext ==
    \/ Next
    \/ \E q \in Questions : ChildAsks(q)

ChildSpec == EmptyProject /\ [][ChildNext]_vars

\* A parent, a child and the children of the child, none of them serving
\* yet, in a project that holds nothing.
FamilyInit ==
    /\ topics = {}
    /\ subscriptions = {}
    /\ queue = [n \in AllNames |-> <<>>]
    /\ serving = [c \in Services |-> FALSE]
    /\ asker = [q \in AllQuestions |-> IdleCall]
    /\ task = [u \in AllUuids |-> NoTask]
    /\ sent = [u \in AllUuids |-> <<>>]
    /\ closed = [c \in Services |-> FALSE]
    /\ server = [c \in Services |-> NoServe]
    /\ services = <<>>
    /\ request = NoRequest

FamilyNext ==
    \/ \E q \in Questions : ParentAsks(q)
    \/ \E q \in AllQuestions : AskCreateTopic(q)
    \/ \E q \in AllQuestions : AskCreateSubscription(q)
    \/ \E q \in AllQuestions : AskPublish(q)
    \/ \E q \in Questions : WaitForAnswer(q)
    \/ \E q \in AllQuestions : Pull(q)
    \/ \E q \in AllQuestions : Finally(q)
    \/ \E q \in AllQuestions : DeleteTopic(q)
    \/ \E q \in AllQuestions : Decode(q)
    \/ \E c \in Services : Serve(c)
    \/ \E c \in Services : ReceiveQuestionThenAnswer(c)
    \/ \E u \in AllUuids : AnswerRun(u)
    \/ \E u \in AllUuids : AnswerPublish(u)
    \/ \E u \in Questions, i \in DOMAIN ChildrenOfChild : RunFunctionAsks(u, i)
    \/ \E u \in Questions, i \in DOMAIN ChildrenOfChild : RunFunctionWaits(u, i)
    \/ \E u \in Questions : RunFunctionReturns(u)

FamilySpec == FamilyInit /\ [][FamilyNext]_vars

\* Every thread that can take a step takes one in the end: the parent's
\* call, the streaming callbacks and the run functions.
FairFamilySpec == FamilySpec /\ WF_vars(FamilyNext)

\* ------------------------------------------------ failing transport calls
\* Any call on the transport may fail with an error that is not retried;
\* PermissionDenied stands for these.  The call that failed has had no effect.
TransportFailure == Raised("PermissionDenied", <<>>)

\* response_subscription.create(allow_existing=False) raises: nothing in ask
\* catches it, and the lines after it are not reached
AskCreateSubscriptionFails(q) ==
    /\ asker[q].pc = "create_subscription"
    /\ asker' = [asker EXCEPT ![q].pc = "done", ![q].ask_result = TransportFailure]
    /\ UNCHANGED <<topics, subscriptions, queue, serving, task, sent, closed, server, services, request>>

\* future.result() of the question's publish raises: nothing in ask catches it
AskPublishFails(q) ==
    /\ asker[q].pc = "publish"
    /\ asker' = [asker EXCEPT ![q].pc = "done", ![q].ask_result = TransportFailure]
    /\ UNCHANGED <<topics, subscriptions, queue, serving, task, sent, closed, server, services, request>>

\* finally: self.subscriber.acknowledge(...) raises for an answer that was
\* received.  The except clause names UnboundLocalError only, so the error
\* leaves the finally block and the with block at once.
FinallyAcknowledgeFails(q) ==
    /\ asker[q].pc = "finally"
    /\ asker[q].bound
    /\ asker' = [asker EXCEPT ![q] = Exited(asker[q], TransportFailure)]
    /\ closed' = SubscriberAfterExit(q)
    /\ UNCHANGED <<topics, subscriptions, queue, serving, task, sent, server, services, request>>

\* finally: the acknowledgement is over (the answer, if one was received, is
\* gone from the subscription) and subscription.delete() raises: the next
\* line, subscription.topic.delete(), is not reached.
FinallySubscriptionDeleteFails(q) ==
    /\ asker[q].pc = "finally"
    /\ queue' = [queue EXCEPT ![ResponseName(q)] = IF asker[q].bound THEN Tail(@) ELSE @]
    /\ asker' = [asker EXCEPT ![q] = Exited(asker[q], TransportFailure)]
    /\ closed' = SubscriberAfterExit(q)
    /\ UNCHANGED <<topics, subscriptions, serving, task, sent, server, services, request>>

\* finally: subscription.topic.delete() raises
DeleteTopicFails(q) ==
    /\ asker[q].pc = "delete_topic"
    /\ asker' = [asker EXCEPT ![q] = Exited(asker[q], TransportFailure)]
    /\ closed' = SubscriberAfterExit(q)
    /\ UNCHANGED <<topics, subscriptions, queue, serving, task, sent, server, services, request>>

FaultNext ==
    \/ Next
    \/ \E q \in Questions : AskCreateSubscriptionFails(q)
    \/ \E q \in Questions : AskPublishFails(q)
    \/ \E q \in Questions : FinallyAcknowledgeFails(q)
    \/ \E q \in Questions : FinallySubscriptionDeleteFails(q)
    \/ \E q \in Questions : DeleteTopicFails(q)

\* The services of an empty project, with a transport whose calls may fail
FaultSpec == EmptyProject /\ [][FaultNext]_vars

\* ---------------------------------------------------- malformed questions
\* Messages that something other than ask publishes on a server topic: bytes
\* that are no JSON document, with or without the question_uuid attribute, and
\* a well-formed payload without the attribute
MalformedQuestions ==
    {[data |-> [text |-> Str("not json")], attributes |-> [question_uuid |-> u]] : u \in Uuids}
    \cup {[data |-> [text |-> Str("not json")], attributes |-> <<>>],
          [data |-> JsonDumps([input_values |-> "hello", input_manifest |-> None]),
           attributes |-> <<>>]}

HoldsMalformed(messages) ==
    \E i \in 1..Len(messages) : messages[i] \in MalformedQuestions

\* A malformed message is published on the server topic of a child
PublishMalformed(c) ==
    /\ ~HoldsMalformed(queue[ServerName(c)])
    /\ \E question \in MalformedQuestions :
          queue' = Published(ServerName(c), question)
    /\ queue' # queue
    /\ UNCHANGED <<topics, subscriptions, serving, asker, task, sent, closed, server, services, request>>

MalformedNext ==
    \/ Next
    \/ \E c \in Children : PublishMalformed(c)

MalformedSpec == EmptyProject /\ [][MalformedNext]_vars

\* ------------------------ the polling Service of octue/resources/service.py
\* This Service has one topic and one subscription named after itself, and
\* answers on the topic f"{self.name}-response-{question_uuid}".  Its state
\* is kept in the variables of the same roles: server (its call of serve),
\* asker (ask and wait_for_response of each question), sent (what respond
\* published for each question uuid), topics, subscriptions and queue.
MaxAsked == 2

\* streaming_pull_future.result(timeout=10)
PollTimeout == 10

PollingServers == {"server"}

PollingQuestions == 1..MaxAsked

PollingTopicName(name) == <<name>>

ResponseTopicName(name, question_uuid) == <<name, "response", question_uuid>>

PollingNames ==
    {PollingTopicName(s) : s \in PollingServers}
    \cup {ResponseTopicName(s, u) : s \in PollingServers, u \in PollingQuestions}

\* question holds the _question attribute when it is set; raw_question is the
\* local variable of the loop; acknowledged lists the uuids of the questions
\* the callback has acknowledged, late those among them that it acknowledged
\* when the timeout of serve had passed
NoPolling ==
    [pc |-> "idle", timeout |-> {}, exit_after_first_response |-> FALSE,
     elapsed |-> 0, waited |-> 0, question |-> <<>>, raw_question |-> <<>>,
     acknowledged |-> <<>>, late |-> {}, result |-> NoResult]

\* response holds the _response attribute of the asking Service when it is set
NoPollingCall ==
    [pc |-> "idle", service_name |-> None, question_uuid |-> 0,
     response |-> <<>>, result |-> NoResult]

PollingInit ==
    /\ topics = {}
    /\ subscriptions = {}
    /\ queue = [n \in PollingNames |-> <<>>]
    /\ serving = [c \in Children |-> FALSE]
    /\ asker = [q \in PollingQuestions |-> NoPollingCall]
    /\ task = [u \in Uuids |-> NoTask]
    /\ sent = [u \in PollingQuestions |-> <<>>]
    /\ closed = [c \in Children |-> FALSE]
    /\ server = [s \in PollingServers |-> NoPolling]
    /\ services = <<>>
    /\ request = NoRequest

\* _time_is_up(start_time, timeout); the timeout is the empty set for None
PollingTimeIsUp(elapsed, timeout) ==
    IF timeout = {} THEN FALSE ELSE \A t \in timeout : ~(elapsed < t)

\* serve(timeout, exit_after_first_response), up to the loop: topic.create(),
\* subscription.create(), subscription.subscribe(callback=question_callback),
\* start_time = time.perf_counter().  Both creates are made without
\* allow_existing; one that is refused raises through the with blocks
\* entered so far, whose exits delete what they name.
PollingServe(s) ==
    /\ server[s].pc = "idle"
    /\ \E timeout \in {{}} \cup {{t} : t \in 1..MaxTimeout}, exit_after_first_response \in BOOLEAN :
          LET name == PollingTopicName(s)
              call == [server[s] EXCEPT !.timeout = timeout,
                          !.exit_after_first_response = exit_after_first_response]
          IN  IF CreateFails(topics, name, FALSE)
              THEN /\ topics' = Deleted(topics, name)
                   /\ server' = [server EXCEPT ![s] =
                         [call EXCEPT !.pc = "exited", !.result = Raised("AlreadyExists", <<>>)]]
                   /\ UNCHANGED <<subscriptions, queue>>
              ELSE IF CreateFails(subscriptions, name, FALSE)
              THEN /\ topics' = Deleted(topics, name)
                   /\ subscriptions' = Deleted(subscriptions, name)
                   /\ queue' = [queue EXCEPT ![name] = <<>>]
                   /\ server' = [server EXCEPT ![s] =
                         [call EXCEPT !.pc = "exited", !.result = Raised("AlreadyExists", <<>>)]]
              ELSE /\ topics' = Created(topics, name)
                   /\ subscriptions' = Created(subscriptions, name)
                   /\ server' = [server EXCEPT ![s] = [call EXCEPT !.pc = "check"]]
                   /\ UNCHANGED queue
    /\ UNCHANGED <<serving, asker, task, sent, closed, services, request>>

\* while True: if self._time_is_up(start_time, timeout): return
LoopCheck(s) ==
    /\ server[s].pc = "check"
    /\ server' = [server EXCEPT
          ![s].pc = IF PollingTimeIsUp(server[s].elapsed, server[s].timeout)
                    THEN "exit" ELSE "waiting",
          ![s].waited = 0]
    /\ UNCHANGED <<topics, subscriptions, queue, serving, asker, task, sent, closed, services, request>>

\* Time passes while streaming_pull_future.result(timeout=10) blocks; the
\* time since start_time is followed up to the largest timeout
WaitTick(s) ==
    /\ server[s].pc = "waiting"
    /\ server[s].waited < PollTimeout
    /\ server' = [server EXCEPT
          ![s].waited = @ + 1,
          ![s].elapsed = IF @ < MaxTimeout THEN @ + 1 ELSE @]
    /\ UNCHANGED <<topics, subscriptions, queue, serving, asker, task, sent, closed, services, request>>

\* except TimeoutError: pass
WaitEnds(s) ==
    /\ server[s].pc = "waiting"
    /\ server[s].waited = PollTimeout
    /\ server' = [server EXCEPT ![s].pc = "pop"]
    /\ UNCHANGED <<topics, subscriptions, queue, serving, asker, task, sent, closed, services, request>>

\* raw_question = vars(self).pop("_question"); except KeyError: continue
PopQuestion(s) ==
    /\ server[s].pc = "pop"
    /\ server' = [server EXCEPT
          ![s].pc = IF server[s].question = <<>> THEN "check" ELSE "respond",
          ![s].raw_question = server[s].question,
          ![s].question = <<>>]
    /\ UNCHANGED <<topics, subscriptions, queue, serving, asker, task, sent, closed, services, request>>

\* json.dumps(output_values).encode() for output_values = {}
PollingResponse == [data |-> JsonDumps(<<>>), attributes |-> <<>>]

\* self.respond(question_uuid=raw_question.attributes["uuid"], output_values={}):
\* topic.create(allow_existing=True); topic.publish(...).  The broker keeps
\* the response for the subscription of the topic if there is one.  After
\* it: if exit_after_first_response: return
Respond(s) ==
    /\ server[s].pc = "respond"
    /\ LET question_uuid == server[s].raw_question[1].attributes.uuid
           name == ResponseTopicName(s, question_uuid)
       IN  /\ topics' = Created(topics, name)
           /\ queue' = IF name \in subscriptions
                       THEN [queue EXCEPT ![name] = Append(@, PollingResponse)]
                       ELSE queue
           /\ sent' = [sent EXCEPT ![question_uuid] = Append(@, PollingResponse)]
    /\ server' = [server EXCEPT
          ![s].pc = IF server[s].exit_after_first_response THEN "exit" ELSE "check",
          ![s].raw_question = <<>>]
    /\ UNCHANGED <<subscriptions, serving, asker, task, closed, services, request>>

\* return: the exit of the Subscription block deletes the subscription and
\* closes its client, the exit of the Topic block deletes the topic
ServeReturns(s) ==
    /\ server[s].pc = "exit"
    /\ subscriptions' = Deleted(subscriptions, PollingTopicName(s))
    /\ queue' = [queue EXCEPT ![PollingTopicName(s)] = <<>>]
    /\ topics' = Deleted(topics, PollingTopicName(s))
    /\ server' = [server EXCEPT ![s].pc = "exited",
                                ![s].result = [NoResult EXCEPT !.kind = "returned"]]
    /\ UNCHANGED <<serving, asker, task, sent, closed, services, request>>

\* question_callback, called by the streaming pull for a question on the
\* subscription for as long as its client is open:
\* self._question = question; question.ack()
QuestionCallback(s) ==
    /\ server[s].pc \in {"check", "waiting", "pop", "respond", "exit"}
    /\ queue[PollingTopicName(s)] # <<>>
    /\ LET question == Head(queue[PollingTopicName(s)])
       IN  server' = [server EXCEPT
              ![s].question = <<question>>,
              ![s].acknowledged = Append(@, question.attributes.uuid),
              ![s].late = IF PollingTimeIsUp(server[s].elapsed, server[s].timeout)
                          THEN @ \cup {question.attributes.uuid} ELSE @]
    /\ queue' = [queue EXCEPT ![PollingTopicName(s)] = Tail(@)]
    /\ UNCHANGED <<topics, subscriptions, serving, asker, task, sent, closed, services, request>>

\* ask(service_name, input_values): question_uuid = str(int(uuid.uuid4()));
\* topic.publish(json.dumps(input_values).encode(), uuid=question_uuid)
PollingAsk(q) ==
    /\ asker[q].pc = "idle"
    /\ \E s \in PollingServers :
          /\ queue' = Published(PollingTopicName(s),
                                [data |-> JsonDumps(<<>>), attributes |-> [uuid |-> q]])
          /\ asker' = [asker EXCEPT ![q].pc = "asked", ![q].service_name = s,
                                    ![q].question_uuid = q]
    /\ UNCHANGED <<topics, subscriptions, serving, task, sent, closed, server, services, request>>

PollingResponseName(q) == ResponseTopicName(asker[q].service_name, asker[q].question_uuid)

\* wait_for_response(question_uuid, service_name, timeout):
\* topic.create(allow_existing=True)
ResponseCreateTopic(q) ==
    /\ asker[q].pc = "asked"
    /\ topics' = Created(topics, PollingResponseName(q))
    /\ asker' = [asker EXCEPT ![q].pc = "create_subscription"]
    /\ UNCHANGED <<subscriptions, queue, serving, task, sent, closed, server, services, request>>

\* subscription.create(); future = subscription.subscribe(callback=callback)
ResponseCreateSubscription(q) ==
    /\ asker[q].pc = "create_subscription"
    /\ IF CreateFails(subscriptions, PollingResponseName(q), FALSE)
       THEN /\ subscriptions' = Deleted(subscriptions, PollingResponseName(q))
            /\ topics' = Deleted(topics, PollingResponseName(q))
            /\ queue' = [queue EXCEPT ![PollingResponseName(q)] = <<>>]
            /\ asker' = [asker EXCEPT ![q].pc = "done",
                                      ![q].result = Raised("AlreadyExists", <<>>)]
       ELSE /\ subscriptions' = Created(subscriptions, PollingResponseName(q))
            /\ asker' = [asker EXCEPT ![q].pc = "waiting"]
            /\ UNCHANGED <<topics, queue>>
    /\ UNCHANGED <<serving, task, sent, closed, server, services, request>>

\* callback: self._response = response; response.ack()
ResponseCallback(q) ==
    /\ asker[q].pc = "waiting"
    /\ queue[PollingResponseName(q)] # <<>>
    /\ asker' = [asker EXCEPT ![q].response = <<Head(queue[PollingResponseName(q)])>>]
    /\ queue' = [queue EXCEPT ![PollingResponseName(q)] = Tail(@)]
    /\ UNCHANGED <<topics, subscriptions, serving, task, sent, closed, server, services, request>>

\* future.result(timeout=timeout) blocks until the timeout has passed, whether
\* a response came or not; except TimeoutError: future.cancel().  Then
\* response = vars(self).pop("_response"), except KeyError: pass; the exits of
\* the with blocks delete the subscription and the topic; and
\* response = json.loads(response.data.decode()) reads a local variable that
\* is unbound when nothing was popped.
WaitForResponseEnds(q) ==
    /\ asker[q].pc = "waiting"
    /\ subscriptions' = Deleted(subscriptions, PollingResponseName(q))
    /\ queue' = [queue EXCEPT ![PollingResponseName(q)] = <<>>]
    /\ topics' = Deleted(topics, PollingResponseName(q))
    /\ asker' = [asker EXCEPT
          ![q].pc = "done",
          ![q].response = <<>>,
          ![q].result =
              IF asker[q].response = <<>>
              THEN Raised("UnboundLocalError",
                          Str("local variable 'response' referenced before assignment"))
              ELSE [NoResult EXCEPT !.kind = "returned",
                                    !.output_values = JsonLoads(asker[q].response[1].data)]]
    /\ UNCHANGED <<serving, task, sent, closed, server, services, request>>

PollingNext ==
    \/ \E s \in PollingServers : PollingServe(s)
    \/ \E s \in PollingServers : LoopCheck(s)
    \/ \E s \in PollingServers : WaitTick(s)
    \/ \E s \in PollingServers : WaitEnds(s)
    \/ \E s \in PollingServers : PopQuestion(s)
    \/ \E s \in PollingServers : Respond(s)
    \/ \E s \in PollingServers : ServeReturns(s)
    \/ \E s \in PollingServers : QuestionCallback(s)
    \/ \E q \in PollingQuestions : PollingAsk(q)
    \/ \E q \in PollingQuestions : ResponseCreateTopic(q)
    \/ \E q \in PollingQuestions : ResponseCreateSubscription(q)
    \/ \E q \in PollingQuestions : ResponseCallback(q)
    \/ \E q \in PollingQuestions : WaitForResponseEnds(q)

PollingSpec == PollingInit /\ [][PollingNext]_vars

\* The thread that called serve keeps running
FairPollingSpec ==
    /\ PollingSpec
    /\ \A s \in PollingServers :
          WF_vars(LoopCheck(s) \/ WaitTick(s) \/ WaitEnds(s) \/ PopQuestion(s)
                      \/ Respond(s) \/ ServeReturns(s))

\* ----------------------------------------------------------------- claims
WaitExited(q) == asker[q].pc = "done" /\ asker[q].wait_result.kind # "none"

\* The message the run function gave its exception
OriginalMessage(analysis) == analysis.args[Len(analysis.args)].value

\* C1: when wait_for_answer has exited, by returning an answer, by raising
\* the exception rebuilt from an error envelope or by raising TimeoutError,
\* neither the reply subscription nor the reply topic of its question exists.
C1_ReplyChannelDeletedOnExit ==
    \A q \in Questions :
        WaitExited(q) =>
            /\ ResponseName(q) \notin subscriptions
            /\ ResponseName(q) \notin topics

\* A call has left by raising the exception rebuilt from the child's error
\* envelope, and the reply channel it pulled from is gone.
C1_Witness ==
    \E q \in Questions :
        /\ WaitExited(q)
        /\ asker[q].wait_result.type = "InvalidManifestContents"
        /\ sent[asker[q].question_uuid] # <<>>
        /\ ResponseName(q) \notin topics \cup subscriptions

WellFormedTerminal(envelope) ==
    LET keys == DOMAIN JsonLoads(envelope.data)
    IN  \/ keys = {"output_values", "output_manifest"}
        \/ keys = {"exception_type", "exception_message", "traceback"}

\* C2: for every question delivered to the serving child, once the callback
\* is over the child has published exactly one terminal message on the reply
\* topic, a result envelope or an error envelope.
C2_ExactlyOneTerminalMessage ==
    \A u \in Uuids :
        task[u].pc \in {"returned", "escaped"} =>
            /\ Len(sent[u]) = 1
            /\ WellFormedTerminal(sent[u][1])

\* C3: no exception leaves answer: whatever the run function raised, answer
\* returns after publishing an error envelope with the type name, the message
\* and the traceback.
C3_AnswerNeverRaises ==
    \A u \in Uuids :
        /\ task[u].pc # "escaped"
        /\ (task[u].pc = "returned" /\ task[u].analysis.kind = "raised") =>
              /\ Len(sent[u]) = 1
              /\ JsonLoads(sent[u][1].data).exception_type = task[u].analysis.type

QuestionPublished(q) ==
    \/ task[NewQuestionUuid(q)].pc # "none"
    \/ \E c \in Children : \E i \in 1..Len(queue[ServerName(c)]) :
          queue[ServerName(c)][i].attributes.question_uuid = NewQuestionUuid(q)

\* C4: the question of a call is published only after ask has created the
\* reply topic and the reply subscription; from then until wait_for_answer
\* runs its cleanup both exist, and every terminal message the child has
\* published for the question is retained on the reply subscription.
C4_ReplyChannelExistsBeforePublish ==
    \A q \in Questions :
        /\ QuestionPublished(q) =>
              asker[q].pc \in {"asked", "pull", "finally", "delete_topic", "decode", "done"}
        /\ asker[q].pc \in {"asked", "pull", "finally"} =>
              /\ ResponseName(q) \in topics
              /\ ResponseName(q) \in subscriptions
              /\ queue[ResponseName(q)] = sent[asker[q].question_uuid]

\* The child has answered while the asker has not yet pulled, and the answer
\* waits on the reply subscription.
C4_Witness ==
    \E q \in Questions :
        /\ asker[q].pc = "asked"
        /\ task[asker[q].question_uuid].pc = "returned"
        /\ Len(queue[ResponseName(q)]) = 1

TimeoutPending(q) ==
    /\ asker[q].pc \in {"finally", "delete_topic"}
    /\ asker[q].wait_result = Raised("TimeoutError", <<>>)

\* C5: a call of wait_for_answer that is pulling either receives an answer
\* or eventually raises TimeoutError; it raises it only when no answer was
\* received and more than `timeout` has elapsed since entry, and a call that
\* received no answer leaves the loop in no other way.
C5_TimeoutErrorRaised ==
    /\ \A q \in Questions :
          (asker[q].pc = "pull") ~>
              (TimeoutPending(q) \/ (asker[q].pc = "finally" /\ asker[q].bound))
    /\ [](\A q \in Questions :
            asker[q].pc = "finally" =>
                IF asker[q].bound
                THEN asker[q].wait_result.kind = "none"
                ELSE /\ TimeoutPending(q)
                     /\ asker[q].elapsed > asker[q].timeout)

\* No answer came and the loop was left with TimeoutError after a pull that
\* ended exactly at the timeout had let it go on.
C5_Witness ==
    \E q \in Questions :
        /\ TimeoutPending(q)
        /\ ~asker[q].bound
        /\ asker[q].elapsed = asker[q].timeout + 1
        /\ sent[asker[q].question_uuid] = <<>>

SameClassAndMessage(result, analysis) ==
    /\ result.kind = "raised"
    /\ result.type = analysis.type
    /\ Contains(result.message, OriginalMessage(analysis))

\* C6: when the run function raised an exception whose type name is in the
\* asker's exceptions mapping, then once the child's callback is over the
\* asker that is still waiting finds on the reply subscription an answer from
\* which wait_for_answer raises an exception of that class whose message
\* contains the child's message, and a wait_for_answer that has exited without
\* timing out has raised such an exception.
C6_KnownExceptionReraised ==
    \A q \in Questions :
        LET analysis == RunFunction(asker[q].input_values)
            u == asker[q].question_uuid
        IN  (asker[q].pc # "idle" /\ analysis.kind = "raised"
                /\ analysis.type \in EXCEPTIONS_MAPPING) =>
                /\ (asker[q].pc \in {"asked", "pull"}
                        /\ task[u].pc \in {"returned", "escaped"}) =>
                      /\ queue[ResponseName(q)] # <<>>
                      /\ SameClassAndMessage(
                            Decoded(JsonLoads(Head(queue[ResponseName(q)]).data)), analysis)
                /\ (WaitExited(q) /\ asker[q].wait_result.type # "TimeoutError") =>
                      SameClassAndMessage(asker[q].wait_result, analysis)

\* C7: when the answer is an error envelope whose exception type is not in
\* the asker's exceptions mapping, wait_for_answer raises, after the reply
\* channel is gone, an exception that carries the remote message.
C7_UnknownExceptionCarriesMessage ==
    \A q \in Questions :
        LET analysis == RunFunction(asker[q].input_values)
        IN  (WaitExited(q) /\ analysis.kind = "raised"
                /\ analysis.type \notin EXCEPTIONS_MAPPING
                /\ asker[q].wait_result.type # "TimeoutError") =>
                /\ asker[q].wait_result.kind = "raised"
                /\ Contains(asker[q].wait_result.message, OriginalMessage(analysis))
                /\ ResponseName(q) \notin topics
                /\ ResponseName(q) \notin subscriptions

NothingCreatedOrPublished ==
    /\ topics' = topics
    /\ subscriptions' = subscriptions
    /\ queue' = queue

ManifestAccepted(call) ==
    /\ call.keywords \subseteq AskParameters
    /\ call.input_manifest = None \/ AllDatasetsAreInCloud(call.input_manifest)

\* C8: a call of ask (whose manifest is acceptable) for a service id whose
\* question topic does not exist ends with ServiceNotFound, in a step that
\* creates no topic, creates no subscription and publishes nothing; the call
\* is over, and its question never reaches a service.
C8_ServiceNotFound ==
    /\ [][\A q \in Questions :
            (/\ asker[q].pc = "idle"
             /\ asker'[q].pc # "idle"
             /\ ManifestAccepted(asker'[q])
             /\ ~TopicExists(ServerName(asker'[q].service_id))) =>
                /\ asker'[q].pc = "done"
                /\ asker'[q].ask_result = Raised("ServiceNotFound", <<>>)
                /\ NothingCreatedOrPublished]_vars
    /\ [](\A q \in Questions :
            asker[q].ask_result.type = "ServiceNotFound" =>
                asker[q].pc = "done" /\ ~QuestionPublished(q))

\* A call has ended with ServiceNotFound while the child was not serving.
C8_Witness ==
    \E q \in Questions :
        /\ asker[q].ask_result.type = "ServiceNotFound"
        /\ ~serving[asker[q].service_id]

AllowsLocalFiles(call) == "allow_local_files" \in call.keywords

\* C9: ask ends with FileLocationError exactly when the manifest is not all
\* in the cloud and allow_local_files is not set; with allow_local_files set
\* the question goes the way of any other question.
C9_FileLocationErrorUnlessAllowed ==
    \A q \in Questions :
        asker[q].pc # "idle" =>
            /\ asker[q].ask_result.type = "FileLocationError" <=>
                  (/\ asker[q].input_manifest # None
                   /\ ~AllDatasetsAreInCloud(asker[q].input_manifest)
                   /\ ~AllowsLocalFiles(asker[q]))
            /\ AllowsLocalFiles(asker[q]) =>
                  asker[q].ask_result.type \in {None, "ServiceNotFound", "AlreadyExists"}

\* C10: ask creates the reply topic and the reply subscription under
\* <child_id>.answers.<question_uuid>; when a topic, or a subscription, of
\* that name exists the creation fails, ask ends there, and the question is
\* never published.
C10_UuidClashFails ==
    /\ [][\A q \in Questions :
            /\ (asker[q].pc = "create_topic" /\ asker'[q] # asker[q]) =>
                  IF ResponseName(q) \in topics
                  THEN /\ asker'[q].pc = "done"
                       /\ asker'[q].ask_result.type = "AlreadyExists"
                       /\ NothingCreatedOrPublished
                  ELSE topics' = topics
                         \cup {AnswerName(asker[q].service_id, asker[q].question_uuid)}
            /\ (asker[q].pc = "create_subscription" /\ asker'[q] # asker[q]) =>
                  IF ResponseName(q) \in subscriptions
                  THEN /\ asker'[q].pc = "done"
                       /\ asker'[q].ask_result.type = "AlreadyExists"
                       /\ NothingCreatedOrPublished
                  ELSE subscriptions' = subscriptions
                         \cup {AnswerName(asker[q].service_id, asker[q].question_uuid)}]_vars
    /\ [](\A q \in Questions :
            asker[q].ask_result.type = "AlreadyExists" =>
                asker[q].pc = "done" /\ ~QuestionPublished(q))

\* A call has failed on a subscription left behind under its reply name,
\* after it had created the reply topic.
C10_Witness ==
    \E q \in Questions :
        /\ asker[q].ask_result.type = "AlreadyExists"
        /\ topics = {ServerName(asker[q].service_id), ResponseName(q)}
        /\ ResponseName(q) \in subscriptions
        /\ ~QuestionPublished(q)
\* The answer the addressed service published for the question of a call
OwnAnswer(q) == Decoded(JsonLoads(sent[asker[q].question_uuid][1].data))

\* C11: when a Service has several questions outstanding, each call of
\* wait_for_answer that does not time out returns the answer the addressed
\* service published for that call's own question, and a reply subscription
\* holds nothing but what was published for its own question.
C11_EachQuestionGetsItsOwnAnswer ==
    \A q \in SubQuestions :
        /\ asker[q].pc \in {"asked", "pull", "finally"} =>
              queue[ResponseName(q)] = sent[asker[q].question_uuid]
        /\ (WaitExited(q) /\ asker[q].wait_result.type # "TimeoutError") =>
              /\ sent[asker[q].question_uuid] # <<>>
              /\ asker[q].wait_result = OwnAnswer(q)

TimedOut(q) == asker[q].wait_result.type = "TimeoutError"

\* The parent's call returned output values that hold, for each child of the
\* child, the answer that child published
EmbedsAnswers(q) ==
    /\ asker[q].wait_result.kind = "returned"
    /\ \A i \in DOMAIN ChildrenOfChild : sent[SubQuestion(q, i)] # <<>>
    /\ asker[q].wait_result.output_values =
          [i \in DOMAIN ChildrenOfChild |-> Answered(OwnAnswer(SubQuestion(q, i)))]

\* C12: once a parent has asked a serving child the question that makes its
\* run function ask its own children, all of them serving before the child
\* takes the question up, the parent's wait_for_answer eventually returns an
\* answer whose output values embed the answers of the children of the
\* child, unless one of the waits timed out.
C12_ChildAsksItsOwnChildren ==
    \A q \in Questions :
        (/\ asker[q].pc = "asked"
         /\ asker[q].input_values = Question
         /\ task[asker[q].question_uuid].pc = "none"
         /\ \A c \in Services : serving[c])
            ~> (/\ WaitExited(q)
                /\ \/ EmbedsAnswers(q)
                   \/ TimedOut(q)
                   \/ \E i \in DOMAIN ChildrenOfChild : TimedOut(SubQuestion(q, i)))

\* The kind of a message on a reply topic: the `kind` attribute of an
\* intermediate message, "terminal" for a result or an error envelope
MessageKind(envelope) ==
    IF "kind" \in DOMAIN envelope.attributes THEN envelope.attributes.kind ELSE "terminal"

\* C13: for every question, once the run function has been invoked the
\* first message answer published on the reply topic is a delivery
\* acknowledgement, which so precedes every other message of the question.
C13_DeliveryAcknowledgedBeforeRun ==
    \A u \in Uuids :
        task[u].pc \in {"ran", "returned", "escaped"} =>
            /\ sent[u] # <<>>
            /\ MessageKind(sent[u][1]) = "delivery_ack"

\* How many times the question of a call has been published: the copies that
\* wait on the child's subscription and the one the child has taken up
TimesPublished(q) ==
    LET waiting == queue[ServerName(asker[q].service_id)]
    IN  Cardinality({i \in 1..Len(waiting) :
                        waiting[i].attributes.question_uuid = asker[q].question_uuid})
        + (IF task[asker[q].question_uuid].pc # "none" THEN 1 ELSE 0)

\* C14: a call of wait_for_answer that saw no delivery acknowledgement on the
\* reply subscription for its whole timeout, and so for longer than any
\* delivery acknowledgement timeout within it, has published its question
\* again under the same question uuid.
C14_QuestionAskedAgain ==
    \A q \in Questions :
        (TimeoutPending(q) /\ sent[asker[q].question_uuid] = <<>>) =>
            TimesPublished(q) >= 2

\* C15: when a question has been delivered more than once and the child has
\* published more than one terminal message for it, a call of wait_for_answer
\* that received a message has taken the first one published, has left
\* neither the reply subscription nor the reply topic nor any message held
\* for them, and once it has returned or raised it never does so again.
C15_AtMostOneTerminalAnswer ==
    /\ [](\A q \in Questions :
            WaitExited(q) =>
                /\ ResponseName(q) \notin topics \cup subscriptions
                /\ queue[ResponseName(q)] = <<>>
                /\ ~TimedOut(q) =>
                      /\ sent[asker[q].question_uuid] # <<>>
                      /\ asker[q].wait_result = OwnAnswer(q))
    /\ [][\A q \in Questions : WaitExited(q) => asker'[q] = asker[q]]_vars

\* The child published more than one terminal message for one question, a
\* question delivered to it again, and the asker's call has returned once.
C15_Witness ==
    \E q \in Questions :
        /\ WaitExited(q)
        /\ asker[q].wait_result.kind = "returned"
        /\ Len(sent[asker[q].question_uuid]) > 1
        /\ task[asker[q].question_uuid].pc = "returned"

\* C16: a call of wait_for_answer on a push subscription never reaches a
\* pull: it is over with PushSubscriptionCannotBePulled raised.
C16_PushSubscriptionCannotBePulled ==
    \A q \in Questions :
        asker[q].push_endpoint # None =>
            /\ asker[q].pc = "done"
            /\ asker[q].wait_result.type = "PushSubscriptionCannotBePulled"

\* The records of the log_record messages among the messages published for
\* a question, in the order published
ForwardedRecord(envelope) == MessageKind(envelope) = "log_record"

ForwardedRecords(messages) ==
    LET forwarded == SelectSeq(messages, ForwardedRecord)
    IN  [i \in 1..Len(forwarded) |-> JsonLoads(forwarded[i].data)]

\* C17: for a question asked without turning log forwarding off, when
\* wait_for_answer has returned the answer, every log record the run
\* function emitted has reached the asker through the reply topic, in the
\* order emitted.
C17_LogRecordsForwarded ==
    \A q \in Questions :
        (/\ WaitExited(q)
         /\ asker[q].wait_result.kind = "returned"
         /\ "subscribe_to_logs" \notin asker[q].keywords) =>
            ForwardedRecords(sent[asker[q].question_uuid]) = LogRecords(asker[q].input_values)

\* C18: a question asked with subscribe_to_logs false is asked all the same
\* (ask fails only for a service that is not there or a reply name that
\* exists), no log record of the run is published on its reply topic, and
\* a call of wait_for_answer that does not time out returns its answer.
C18_AnswerWithoutLogForwarding ==
    \A q \in Questions :
        "subscribe_to_logs" \in asker[q].keywords =>
            /\ asker[q].ask_result.kind = "raised" =>
                  asker[q].ask_result.type \in {"ServiceNotFound", "AlreadyExists"}
            /\ asker[q].question_uuid \in Uuids =>
                  ForwardedRecords(sent[asker[q].question_uuid]) = <<>>
            /\ (WaitExited(q) /\ ~TimedOut(q)) => asker[q].wait_result = OwnAnswer(q)

\* The data of the monitor messages among the messages published for a
\* question, in the order published
IsMonitorMessage(envelope) == MessageKind(envelope) = "monitor"

MonitorData(messages) ==
    LET monitor == SelectSeq(messages, IsMonitorMessage)
    IN  [i \in 1..Len(monitor) |-> JsonLoads(monitor[i].data)]

\* C19: when wait_for_answer has returned the answer, every monitor message
\* the run function sent during the question has reached the asker through
\* the reply topic, each once and in the order sent.
C19_MonitorMessagesHandled ==
    \A q \in Questions :
        (WaitExited(q) /\ asker[q].wait_result.kind = "returned") =>
            MonitorData(sent[asker[q].question_uuid]) = MonitorMessages(asker[q].input_values)

\* The monitor messages sent before the first one that fails the schema
ValidBefore(messages) ==
    LET invalid == {i \in 1..Len(messages) : ~MeetsMonitorSchema(messages[i])}
    IN  IF invalid = {} THEN messages
        ELSE SubSeq(messages, 1, (CHOOSE i \in invalid : \A j \in invalid : i <= j) - 1)

\* C20: when the run function sent a monitor message that fails the schema,
\* a call of wait_for_answer that does not time out raises
\* InvalidMonitorMessage, and the monitor messages that reached the asker
\* are exactly the valid ones sent before the invalid one.
C20_InvalidMonitorMessage ==
    \A q \in Questions :
        (/\ WaitExited(q)
         /\ ~TimedOut(q)
         /\ ValidBefore(MonitorMessages(asker[q].input_values))
               # MonitorMessages(asker[q].input_values)) =>
            /\ asker[q].wait_result.type = "InvalidMonitorMessage"
            /\ MonitorData(sent[asker[q].question_uuid])
                  = ValidBefore(MonitorMessages(asker[q].input_values))

ServeExitedWith(c) == server[c].pc = "exited"

\* C21: whenever serve has ended, by its timeout, by an interrupt or by an
\* error, the server topic and the server subscription are both deleted if
\* delete_topic_and_subscription_on_exit was passed, and both exist if not.
C21_ServerChannelOnExit ==
    \A c \in Children :
        ServeExitedWith(c) =>
            IF server[c].delete_topic_and_subscription_on_exit
            THEN ServerName(c) \notin topics \cup subscriptions
            ELSE ServerName(c) \in topics \cap subscriptions

\* C22: serve has called future.cancel() on its streaming subscription by the
\* time it exits, whether it exits because the timeout expired, because an
\* interrupt arrived or because the stream failed with a fatal error.
C22_StreamCancelledBeforeExit ==
    \A c \in Children : ServeExitedWith(c) => server[c].cancelled

ServeCalled(c) == server[c].pc = "idle" /\ server'[c].pc # "idle"

\* C23: serve creates the server topic and its subscription idempotently.
\* A call of serve for an id whose topic, or topic and subscription, exist
\* already does not fail: it adds what is missing, leaves what exists and
\* what it retains as it was, and ends up subscribed; while serve waits, the
\* topic and the subscription exist and the callback can be handed questions.
C23_ServeCreatesIdempotently ==
    /\ [][\A c \in Children :
            ServeCalled(c) =>
                /\ server'[c].pc = "waiting"
                /\ topics' = topics \cup {ServerName(c)}
                /\ subscriptions' = subscriptions \cup {ServerName(c)}
                /\ queue' = queue]_vars
    /\ [](\A c \in Children :
            server[c].pc = "waiting" =>
                /\ serving[c] /\ ~closed[c]
                /\ ServerName(c) \in topics \cap subscriptions)

\* serve was called when both the topic and the subscription existed, and
\* the callback has been handed a question since
C23_Witness ==
    \E c \in Children :
        /\ server[c].pc = "waiting"
        /\ server[c].found = {"topic", "subscription"}
        /\ \E u \in Uuids : task[u].service = c /\ task[u].pc = "answering"

IsNonEmptyString(value) == value.type = "str" /\ value.value # <<>>

\* C24: constructing a Service with service_id None gives it a fresh uuid as
\* its id; constructing it with an empty value or with a value that is no
\* string raises ValueError and creates no Service; any other id is accepted
\* as it is given.
C24_ServiceIdValidated ==
    \A i \in DOMAIN services :
        LET service == services[i]
        IN  IF service.service_id = NoneValue
            THEN /\ service.kind = "created"
                 /\ service.id.type = "str"
                 /\ \A j \in DOMAIN services : j # i => services[j].id # service.id
            ELSE IF IsNonEmptyString(service.service_id)
            THEN service.kind = "created"
            ELSE service.kind = "raised" /\ service.type = "ValueError"

StartsWith(text, prefix) ==
    Len(text) >= Len(prefix) /\ SubSeq(text, 1, Len(prefix)) = prefix

NamespacePrefix == <<OCTUE_NAMESPACE, ".">>

\* C25: the id of every constructed Service starts with the namespace prefix
\* "octue.services." and holds it once only: the prefix is added to a given
\* id that lacks it and is not added to one that has it.
C25_NamespaceInId ==
    \A i \in DOMAIN services :
        services[i].kind = "created" =>
            /\ StartsWith(services[i].id.value, NamespacePrefix)
            /\ ~StartsWith(SubSeq(services[i].id.value, Len(NamespacePrefix) + 1,
                                  Len(services[i].id.value)),
                           NamespacePrefix)

\* A step in which Child.ask is called for question q: a Service is
\* constructed and the question leaves its idle state
ChildAsked(q) ==
    asker[q].pc = "idle" /\ asker'[q].pc # "idle" /\ Len(services') > Len(services)

\* C26: Child.ask builds a new Service on every call and does with its
\* arguments what ask of that Service does for the id of the child with the
\* same input values and input manifest, so that what follows is what ask
\* and then wait_for_answer return or raise.
C26_ChildAskIsAskThenWait ==
    [][\A q \in Questions :
          ChildAsked(q) =>
              /\ services'[Len(services')].kind = "created"
              /\ asker'[q] = Asking(q, asker'[q].service_id,
                                    Call(asker'[q].input_values,
                                         asker'[q].input_manifest, {}))]_vars

AnsweredSuccessfully(q) == WaitExited(q) /\ asker[q].wait_result.kind = "returned"

TransientStatuses ==
    {"not-found", "aborted", "deadline-exceeded", "internal", "resource-exhausted",
     "unavailable", "unknown", "cancelled"}

\* C28: the retry predicate of create_custom_retry is true for exactly the
\* eight transient classes of transport error and false for every other
\* one: only a transient error is followed by another attempt, and an error
\* of any other class is raised to the caller by the attempt it occurred in.
C28_RetriesExactlyTransientErrors ==
    /\ \A error \in TransportErrors :
          RetryPredicate(error) <=> error.status \in TransientStatuses
    /\ \A i \in DOMAIN request.errors :
          /\ i < Len(request.errors) => request.errors[i].status \in TransientStatuses
          /\ request.errors[i].status \notin TransientStatuses =>
                /\ request.pc = "done"
                /\ request.result = Raised(request.errors[i].class, <<>>)
          /\ (/\ i = Len(request.errors)
              /\ request.errors[i].status \in TransientStatuses
              /\ request.pc = "done") =>
                request.result.type \in {None, "RetryError"}

\* A call that was retried after a transient error and then raised an
\* error that is not transient to its caller
C28_Witness ==
    /\ request.pc = "done"
    /\ Len(request.errors) > 1
    /\ request.errors[1].status = "cancelled"
    /\ request.result.type = "PermissionDenied"

QuestionPayloadKeys == {"input_values", "input_manifest"}

\* C29: the reply topic on which answer publishes, named from the id of the
\* child and the question_uuid attribute of the question, is the topic that
\* ask created and subscribed to, named from the service id asked and the
\* question uuid it drew; the question uuid is an attribute of the question
\* message and no key of its payload.
C29_ReplyTopicAgreed ==
    /\ [][\A u \in Uuids :
            sent'[u] # sent[u] =>
                \E q \in Questions :
                    /\ asker[q].question_uuid = u
                    /\ asker[q].service_id = task[u].service
                    /\ queue' = Published(ResponseName(q), sent'[u][Len(sent'[u])])]_vars
    /\ [](\A c \in Children : \A i \in 1..Len(queue[ServerName(c)]) :
            LET question == queue[ServerName(c)][i]
            IN  /\ DOMAIN JsonLoads(question.data) = QuestionPayloadKeys
                /\ DOMAIN question.attributes = {"question_uuid"})
    /\ [](\A u \in Uuids :
            task[u].pc # "none" => DOMAIN task[u].data = QuestionPayloadKeys)

\* The child has published its answer and the answer is retained on the
\* reply subscription that ask created for the question
C29_Witness ==
    \E q \in Questions :
        /\ asker[q].pc = "pull"
        /\ task[asker[q].question_uuid].service = asker[q].service_id
        /\ sent[asker[q].question_uuid] # <<>>
        /\ queue[ResponseName(q)] = sent[asker[q].question_uuid]

\* The run function is invoked for question u in this step
RunInvoked(u) == task[u].pc = "answering" /\ task'[u].pc = "ran"

\* The question message of u is on a server subscription, unacknowledged
Unacknowledged(u) ==
    \E c \in Children : \E i \in 1..Len(queue[ServerName(c)]) :
        queue[ServerName(c)][i].attributes.question_uuid = u

\* C30: for each question the server goes from received and acknowledged to
\* running and then to responded or failed, in that order: the question has
\* been acknowledged when the run function is invoked, the run function is
\* invoked once for each delivery of the question message and not again, and
\* the server does not run a failed question again by itself.
C30_ServerMovesLinearly ==
    [][\A u \in Uuids :
          /\ RunInvoked(u) => ~Unacknowledged(u)
          /\ task'[u].pc # task[u].pc =>
                \/ /\ task[u].pc = "none" /\ task'[u].pc = "answering"
                   /\ task'[u].deliveries = 1
                \/ /\ task[u].pc = "answering" /\ task'[u].pc = "ran"
                   /\ task'[u].deliveries = task[u].deliveries
                \/ /\ task[u].pc = "ran" /\ task'[u].pc \in {"returned", "escaped"}
                   /\ task'[u].deliveries = task[u].deliveries
                   /\ task'[u].analysis = task[u].analysis
                \/ /\ task[u].pc \in {"returned", "escaped"} /\ task'[u].pc = "answering"
                   /\ task'[u].deliveries = task[u].deliveries + 1
          /\ task'[u].pc = task[u].pc => task'[u] = task[u]]_vars

\* The run function raised for a question delivered once, the error
\* envelope was published, and the callback is over
C30_Witness ==
    \E u \in Uuids :
        /\ task[u].pc = "returned"
        /\ task[u].analysis.kind = "raised"
        /\ task[u].deliveries = 1
        /\ Len(sent[u]) = 1

\* C31: wait_for_answer leaves the subscriber client of its Service usable:
\* when a call made from the run function of a serving Service has exited,
\* the client of that Service is not closed, so that the Service can pull on
\* another reply subscription and its streaming subscription is still
\* handed questions.
C31_SubscriberUsableAfterWait ==
    \A q \in SubQuestions :
        WaitExited(q) =>
            /\ ~closed[Subscriber(q)]
            /\ asker[q].wait_result.type \notin {"ValueError", "RuntimeError"}

\* The asker of question u has raised TimeoutError and deleted the reply
\* channel, and in this step the child leaves answer for that question
AnswerEndsAfterTimeout(u) ==
    /\ task[u].pc = "ran" /\ task'[u].pc # "ran"
    /\ \E q \in Questions :
          /\ asker[q].question_uuid = u
          /\ asker[q].pc = "done"
          /\ asker[q].wait_result.type = "TimeoutError"

\* C32: when the asker has timed out and deleted the reply channel while the
\* child was running the question, answer ends without an exception leaving
\* the callback, and the reply topic is not created again.
C32_AnswerAfterAskerTimeout ==
    [][\A u \in Uuids :
          AnswerEndsAfterTimeout(u) =>
              /\ task'[u].pc = "returned"
              /\ topics' = topics
              /\ subscriptions' = subscriptions
              /\ queue' = queue]_vars

\* C33: a step that leaves the cleanup of wait_for_answer has deleted the
\* reply topic, also when the step is a failing acknowledgement of the answer
\* or a failing deletion of the reply subscription.
C33_TopicDeletedWhateverFails ==
    [][\A q \in Questions :
          (asker[q].pc = "finally" /\ asker'[q].pc = "done") =>
              ResponseName(q) \notin topics']_vars

AskFailedAfterTopic(q) ==
    /\ asker[q].pc = "done"
    /\ asker[q].ask_result.kind = "raised"
    /\ asker[q].question_uuid \in Uuids

\* C34: when ask has raised after it created the reply topic, neither the
\* reply topic nor the reply subscription of that call exists.
C34_NothingLeftByFailedAsk ==
    \A q \in Questions :
        AskFailedAfterTopic(q) =>
            /\ ResponseName(q) \notin topics
            /\ ResponseName(q) \notin subscriptions

\* C35: a malformed question is logged and dropped: no call of the
\* subscribe callback has raised, and no serve has been ended by what its
\* callback raised for a question.
C35_MalformedQuestionDropped ==
    \A c \in Children :
        /\ server[c].callback.kind # "raised"
        /\ server[c].result.type \notin {"JSONDecodeError", "KeyError"}

Unserialisable(analysis) ==
    analysis.kind = "returned" /\ analysis.output_values_type \notin {"json", "datetime"}

IsErrorEnvelope(envelope) == "exception_type" \in DOMAIN JsonLoads(envelope.data)

\* C36: when the run function has returned output values that cannot be
\* encoded as JSON, answer has published one error envelope, of a TypeError,
\* and no result envelope; a wait_for_answer for that question that has
\* exited has raised that TypeError, unless its timeout came first.
C36_UnserialisableOutputIsAnError ==
    /\ \A u \in Uuids :
          (task[u].pc \in {"returned", "escaped"} /\ Unserialisable(task[u].analysis)) =>
              /\ task[u].pc = "returned"
              /\ Len(sent[u]) = 1
              /\ IsErrorEnvelope(sent[u][1])
              /\ JsonLoads(sent[u][1].data).exception_type = "TypeError"
    /\ \A q \in Questions :
          (WaitExited(q) /\ asker[q].input_values = "unserialisable") =>
              /\ asker[q].wait_result.kind = "raised"
              /\ asker[q].wait_result.type \in {"TypeError", "TimeoutError"}

\* A parent has received the TypeError of a child whose run function
\* returned an object that JSON cannot represent.
C36_Witness ==
    \E q \in Questions :
        /\ WaitExited(q)
        /\ asker[q].input_values = "unserialisable"
        /\ asker[q].wait_result.type = "TypeError"
        /\ Unserialisable(task[asker[q].question_uuid].analysis)
        /\ IsErrorEnvelope(sent[asker[q].question_uuid][1])

LocalManifestForMissingService(call) ==
    /\ call.keywords \subseteq AskParameters
    /\ call.input_manifest # None
    /\ ~AllDatasetsAreInCloud(call.input_manifest)
    /\ ~TopicExists(ServerName(call.service_id))

\* C37: a call of ask with a manifest that is not all in the cloud, for a
\* service whose question topic does not exist, ends with FileLocationError
\* and not with ServiceNotFound, in a step that chooses no question uuid,
\* creates nothing and publishes nothing.
C37_ManifestCheckedFirst ==
    [][\A q \in Questions :
          (/\ asker[q].pc = "idle"
           /\ asker'[q].pc # "idle"
           /\ LocalManifestForMissingService(asker'[q])) =>
              /\ asker'[q].pc = "done"
              /\ asker'[q].ask_result = Raised("FileLocationError", <<>>)
              /\ asker'[q].question_uuid = 0
              /\ NothingCreatedOrPublished]_vars

\* A call with a local manifest for a child that was never served has ended
\* with FileLocationError.
C37_Witness ==
    \E q \in Questions :
        /\ asker[q].ask_result.type = "FileLocationError"
        /\ LocalManifestForMissingService(asker[q])

\* C38: a call of the polling serve with a timeout returns in the end, also
\* when nobody asks; its callback acknowledges no question once the timeout
\* has passed; and a call without a timeout, that was not told to exit after
\* its first response, does not return.
C38_ServesForItsTimeout ==
    /\ \A s \in PollingServers :
          (server[s].pc = "check" /\ server[s].timeout # {}) ~> (server[s].pc = "exited")
    /\ [](\A s \in PollingServers :
            /\ server[s].late = {}
            /\ (server[s].timeout = {} /\ ~server[s].exit_after_first_response) =>
                   server[s].pc \notin {"exit", "exited"})

RespondedTo(u) == sent[u] # <<>>

\* C39: while the polling serve has not left its loop, every question its
\* callback has acknowledged has been passed to respond, or is the one the
\* loop is about to respond to, or is held for the loop's next turn.
C39_EveryAcknowledgedQuestionAnswered ==
    \A s \in PollingServers :
        server[s].pc \notin {"exit", "exited"} =>
            \A i \in 1..Len(server[s].acknowledged) :
                LET u == server[s].acknowledged[i]
                IN  \/ RespondedTo(u)
                    \/ \E j \in 1..Len(server[s].question) :
                          server[s].question[j].attributes.uuid = u
                    \/ \E j \in 1..Len(server[s].raw_question) :
                          server[s].raw_question[j].attributes.uuid = u

\* C40: a response that respond has published for a question is held for the
\* asker, on the response subscription or by its callback, until
\* wait_for_response ends, and a wait_for_response that ends has returned the
\* response or raised TimeoutError.
C40_ResponseReachesAsker ==
    \A q \in PollingQuestions :
        /\ (/\ asker[q].pc \in {"asked", "create_subscription", "waiting"}
            /\ RespondedTo(asker[q].question_uuid)) =>
               \/ queue[PollingResponseName(q)] # <<>>
               \/ asker[q].response # <<>>
        /\ asker[q].pc = "done" =>
               \/ asker[q].result.kind = "returned"
               \/ asker[q].result.type = "TimeoutError"

====
